---- MODULE Spec2Model ----
(***************************************************************************)
(* Model of find-my-flick's IMDb rating cache (src/lib/imdb-cache.ts) and   *)
(* of the cron job that populates it (src/app/api/cron/imdb-cache/route.ts).*)
(*                                                                         *)
(* The remote key-value store is one function kv from keys to values; each *)
(* server process p has its own memoryCache[p].  A key `${prefix}:${id}`   *)
(* is the pair <<prefix, id>>.  A stored value is a record; the updatedAt  *)
(* field of a stored value is written by the code and read nowhere, and is *)
(* left out of the records.  JavaScript's null / undefined is Nil, and a   *)
(* `number | null` or `string | null` result x is Some(x) or Nil.          *)
(***************************************************************************)
EXTENDS Integers, Sequences, FiniteSets, TLC

VARIABLES
    env,          \* process.env: NODE_ENV, the two KV credentials, the API keys, CRON_SECRET
    now,          \* Date.now(), in milliseconds
    kv,           \* the remote store: key -> value or Nil
    memoryCache,  \* per process: key -> Nil or [value, expiresAt]
    last,         \* history: the cache operation that ran last, with its result
    job,          \* per process: the locals of the cron GET handler in flight
    resp,         \* history: the response the latest handler step produced, if any
    runsOn        \* history: per UTC date, how many invocations passed the skip guard

vars == <<env, now, kv, memoryCache, last, job, resp, runsOn>>

----------------------------------------------------------------------------
(* Bounds of the model *)

MaxTicks == 2        \* how far the clock runs in SpecCache, in ticks of TickMs
MaxUsage == 2        \* cap on the daily usage counter in SpecCache
MaxDays == 1         \* the last UTC date the cron specification runs through
MaxRuns == 2         \* cap on the invocations that pass the skip guard

Procs == {1, 2}      \* server processes, each with its own memory cache
TickMs == 40 * 60 * 1000
DayMs == 24 * 60 * 60 * 1000

ImdbIds == {"tt1", "tt2", "tt3"}
TmdbIds == {1, 2}
MediaTypes == {"movie", "tv"}
Ratings == {5, 9}
\* How one request to the remote store ends.  The code tells a rate-limit error
\* from any other only to pick the log level, so one "raise" stands for both.
KvOutcomes == {"ok", "raise"}

Nil == [nil |-> TRUE]
Some(x) == [some |-> x]

----------------------------------------------------------------------------
(* src/lib/imdb-cache.ts *)

MEMORY_TTL_MS == 60 * 60 * 1000

cacheKey(prefix, id) == <<prefix, id>>

RatingKeys == {cacheKey("imdb:rating", i) : i \in ImdbIds}
MapKeys == {cacheKey("imdb:map:movie", t) : t \in TmdbIds}
              \cup {cacheKey("imdb:map:tv", t) : t \in TmdbIds}
MemKeys == RatingKeys \cup MapKeys
Dates == -1..MaxDays
UsageKeys == {cacheKey("imdb:omdb:usage", d) : d \in Dates}
CronStateKey == cacheKey("imdb:cron", "state")
KvKeys == MemKeys \cup UsageKeys \cup {CronStateKey}

mapPrefix(mediaType) == IF mediaType = "movie" THEN "imdb:map:movie" ELSE "imdb:map:tv"

\* Mutant: the NODE_ENV test is missing.
isKvEnabledNoEnvCheck == env.KV_URL /\ env.KV_TOKEN

isKvEnabled ==
    IF env.NODE_ENV # "production"
    THEN FALSE
    ELSE env.KV_URL /\ env.KV_TOKEN

\* Mutant: the cache counts as enabled in every deployment.
isImdbCacheEnabledAlways == TRUE

isImdbCacheEnabled == isKvEnabled

\* getImdbKvClient: the client of the IMDb store when both credentials are
\* set, else @vercel/kv's default client, which has no credentials of its own
\* in this deployment and raises on every call.
clientUsable == env.KV_URL /\ env.KV_TOKEN

\* What a remote request does: "ok", or the way it raises.
clientCall(out) == IF clientUsable THEN out ELSE "raise"

\* Mutant: an entry is served whatever its expiresAt.
getMemoryCacheNoExpiry(mem, key, t) ==
    [value |-> IF mem[key] = Nil THEN Nil ELSE mem[key].value, mem |-> mem]

\* getMemoryCache: the value, and the cache with an expired entry deleted.
getMemoryCache(mem, key, t) ==
    IF mem[key] = Nil
    THEN [value |-> Nil, mem |-> mem]
    ELSE IF t > mem[key].expiresAt
         THEN [value |-> Nil, mem |-> [mem EXCEPT ![key] = Nil]]
         ELSE [value |-> mem[key].value, mem |-> mem]

\* Mutant: the entry is stored already expired.
setMemoryCacheNoTtl(mem, key, value, t) ==
    [mem EXCEPT ![key] = [value |-> value, expiresAt |-> t - 1]]

setMemoryCache(mem, key, value, t) ==
    [mem EXCEPT ![key] = [value |-> value, expiresAt |-> t + MEMORY_TTL_MS]]

\* The result of a cache operation: the process's memory cache and the remote
\* store after it, what it returned (or that it threw), and how many remote
\* requests it issued.
Done(mem, kvs, ret, calls) ==
    [mem |-> mem, kv |-> kvs, ret |-> ret, threw |-> FALSE, calls |-> calls]
Threw(mem, kvs, calls) ==
    [mem |-> mem, kv |-> kvs, ret |-> Nil, threw |-> TRUE, calls |-> calls]

\* Single get, rating or id mapping: field is "rating" or "imdbId".
getSingle(mem, kvs, key, field, t, out) ==
    IF ~isKvEnabled
    THEN Done(mem, kvs, Nil, 0)
    ELSE LET g == getMemoryCache(mem, key, t) IN
         IF g.value # Nil
         THEN Done(g.mem, kvs, Some(g.value[field]), 0)
         ELSE IF clientCall(out) # "ok"
              THEN Done(g.mem, kvs, Nil, 1)           \* caught, logged
              ELSE LET value == kvs[key] IN
                   IF value # Nil
                   THEN Done(setMemoryCache(g.mem, key, value, t), kvs,
                             Some(value[field]), 1)
                   ELSE Done(g.mem, kvs, Nil, 1)

getCachedImdbRating(mem, kvs, imdbId, t, out) ==
    getSingle(mem, kvs, cacheKey("imdb:rating", imdbId), "rating", t, out)

getCachedImdbId(mem, kvs, mediaType, tmdbId, t, out) ==
    getSingle(mem, kvs, cacheKey(mapPrefix(mediaType), tmdbId), "imdbId", t, out)

\* The memory cache after getMemoryCache has run on every key of keys.
RECURSIVE sweep(_, _, _)
sweep(mem, keys, t) ==
    IF keys = {} THEN mem
    ELSE LET k == CHOOSE x \in keys : TRUE IN
         sweep(getMemoryCache(mem, k, t).mem, keys \ {k}, t)

\* The memory cache after setMemoryCache(k, vals[k]) for every k of vals.
RECURSIVE fill(_, _, _, _)
fill(mem, keys, vals, t) ==
    IF keys = {} THEN mem
    ELSE LET k == CHOOSE x \in keys : TRUE IN
         fill(setMemoryCache(mem, k, vals[k], t), keys \ {k}, vals, t)

\* Mutant: the batch get answers from the memory cache alone.
getBatchMemoryOnly(mem, kvs, ids, prefix, field, t, out) ==
    LET keyOf(i) == cacheKey(prefix, i)
        inMem == {i \in ids : getMemoryCache(mem, keyOf(i), t).value # Nil}
    IN Done(sweep(mem, {keyOf(i) : i \in ids}, t), kvs,
            [i \in inMem |-> mem[keyOf(i)].value[field]], 0)

\* Batch get: ids is the set of ids asked for, keyOf the key of an id; the
\* result maps the ids found to their field.
getBatch(mem, kvs, ids, prefix, field, t, out) ==
    IF ~isKvEnabled
    THEN Done(mem, kvs, <<>>, 0)
    ELSE LET keyOf(i) == cacheKey(prefix, i)
             inMem == {i \in ids : getMemoryCache(mem, keyOf(i), t).value # Nil}
             missingIds == ids \ inMem
             mem1 == sweep(mem, {keyOf(i) : i \in ids}, t)
             fromMem == [i \in inMem |-> mem[keyOf(i)].value[field]]
         IN IF missingIds = {}
            THEN Done(mem1, kvs, fromMem, 0)
            ELSE IF clientCall(out) # "ok"
                 THEN Done(mem1, kvs, fromMem, 1)     \* caught: what memory had
                 ELSE LET found == {i \in missingIds : kvs[keyOf(i)] # Nil}
                          vals == [k \in {keyOf(i) : i \in found} |-> kvs[k]]
                      IN Done(fill(mem1, DOMAIN vals, vals, t), kvs,
                              [i \in inMem \cup found |->
                                  IF i \in inMem THEN mem[keyOf(i)].value[field]
                                  ELSE kvs[keyOf(i)][field]],
                              1)

getCachedImdbRatings(mem, kvs, imdbIds, t, out) ==
    getBatch(mem, kvs, imdbIds, "imdb:rating", "rating", t, out)

getCachedImdbIds(mem, kvs, mediaType, tmdbIds, t, out) ==
    getBatch(mem, kvs, tmdbIds, mapPrefix(mediaType), "imdbId", t, out)

\* Mutant: the memory cache is written only once the remote write succeeded.
setSingleRemoteFirst(mem, kvs, key, value, t, out) ==
    IF ~isKvEnabled
    THEN Done(mem, kvs, Nil, 0)
    ELSE IF clientCall(out) # "ok"
         THEN Done(mem, kvs, Nil, 1)
         ELSE Done(setMemoryCache(mem, key, value, t), [kvs EXCEPT ![key] = value], Nil, 1)

\* Single set: memory first, then the remote store; a raised write is caught.
setSingle(mem, kvs, key, value, t, out) ==
    IF ~isKvEnabled
    THEN Done(mem, kvs, Nil, 0)
    ELSE LET mem1 == setMemoryCache(mem, key, value, t) IN
         IF clientCall(out) # "ok"
         THEN Done(mem1, kvs, Nil, 1)
         ELSE Done(mem1, [kvs EXCEPT ![key] = value], Nil, 1)

\* Mutant: the remote write is left out.
setCachedImdbRatingLocalOnly(mem, kvs, imdbId, rating, t, out) ==
    IF ~isKvEnabled
    THEN Done(mem, kvs, Nil, 0)
    ELSE Done(setMemoryCache(mem, cacheKey("imdb:rating", imdbId), [rating |-> rating], t),
              kvs, Nil, 1)

setCachedImdbRating(mem, kvs, imdbId, rating, t, out) ==
    setSingle(mem, kvs, cacheKey("imdb:rating", imdbId), [rating |-> rating], t, out)

setCachedImdbId(mem, kvs, mediaType, tmdbId, imdbId, t, out) ==
    setSingle(mem, kvs, cacheKey(mapPrefix(mediaType), tmdbId), [imdbId |-> imdbId], t, out)

\* Batch set: vals maps keys to values; one mset.
setBatch(mem, kvs, vals, t, out) ==
    IF ~isKvEnabled \/ DOMAIN vals = {}
    THEN Done(mem, kvs, Nil, 0)
    ELSE LET mem1 == fill(mem, DOMAIN vals, vals, t) IN
         IF clientCall(out) # "ok"
         THEN Done(mem1, kvs, Nil, 1)
         ELSE Done(mem1, [k \in DOMAIN kvs |-> IF k \in DOMAIN vals THEN vals[k] ELSE kvs[k]],
                   Nil, 1)

\* ratings: a function from imdb ids to ratings.
setCachedImdbRatings(mem, kvs, ratings, t, out) ==
    setBatch(mem, kvs,
             [k \in {cacheKey("imdb:rating", i) : i \in DOMAIN ratings} |->
                 [rating |-> ratings[k[2]]]],
             t, out)

\* mappings: a function from tmdb ids to imdb ids.
setCachedImdbIds(mem, kvs, mediaType, mappings, t, out) ==
    setBatch(mem, kvs,
             [k \in {cacheKey(mapPrefix(mediaType), i) : i \in DOMAIN mappings} |->
                 [imdbId |-> mappings[k[2]]]],
             t, out)

\* No try/catch in the four below: a raised request rejects the caller's await.
getCronState(mem, kvs, out) ==
    IF ~isKvEnabled
    THEN Done(mem, kvs, Nil, 0)
    ELSE IF clientCall(out) # "ok"
         THEN Threw(mem, kvs, 1)
         ELSE Done(mem, kvs, kvs[CronStateKey], 1)

setCronState(mem, kvs, state, out) ==
    IF ~isKvEnabled
    THEN Done(mem, kvs, Nil, 0)
    ELSE IF clientCall(out) # "ok"
         THEN Threw(mem, kvs, 1)
         ELSE Done(mem, [kvs EXCEPT ![CronStateKey] = state], Nil, 1)

usageCount(kvs, date) ==
    IF kvs[cacheKey("imdb:omdb:usage", date)] = Nil THEN 0
    ELSE kvs[cacheKey("imdb:omdb:usage", date)].count

incrementOmdbUsage(mem, kvs, date, out) ==
    IF clientCall(out) # "ok"
    THEN Threw(mem, kvs, 1)
    ELSE Done(mem,
              [kvs EXCEPT ![cacheKey("imdb:omdb:usage", date)] =
                              [count |-> usageCount(kvs, date) + 1]],
              Some(usageCount(kvs, date) + 1), 1)

getOmdbUsage(mem, kvs, date, out) ==
    IF ~isKvEnabled
    THEN Done(mem, kvs, Nil, 0)
    ELSE IF clientCall(out) # "ok"
         THEN Threw(mem, kvs, 1)
         ELSE Done(mem, kvs,
                   IF kvs[cacheKey("imdb:omdb:usage", date)] = Nil THEN Nil
                   ELSE Some(kvs[cacheKey("imdb:omdb:usage", date)].count),
                   1)

----------------------------------------------------------------------------
(* The cache's callers: any process may call any exported operation.        *)

Today == now \div DayMs          \* new Date().toISOString().slice(0, 10)

EnvAll ==
    [NODE_ENV : {"production", "development"}, KV_URL : BOOLEAN, KV_TOKEN : BOOLEAN,
     TMDB_API_KEY : BOOLEAN, OMDB_API_KEY : BOOLEAN, CRON_SECRET : BOOLEAN]

EmptyMemory == [k \in MemKeys |-> Nil]
EmptyKv == [k \in KvKeys |-> Nil]
NoOp == [op |-> "none", p |-> 0, args |-> Nil, ret |-> Nil, threw |-> FALSE,
         calls |-> 0, raised |-> FALSE, held |-> Nil, seq |-> 0]
IdleJob == [pc |-> "idle"]
NoResp == [p |-> 0, status |-> 0, body |-> Nil, thrown |-> "no"]

\* The state of a fresh deployment: nothing cached, nothing stored.
InitCommon ==
    /\ now = 0
    /\ kv = EmptyKv
    /\ memoryCache = [p \in Procs |-> EmptyMemory]
    /\ last = NoOp
    /\ job = [p \in Procs |-> IdleJob]
    /\ resp = NoResp
    /\ runsOn = [d \in Dates |-> 0]

InitCache ==
    /\ env \in {e \in EnvAll : e.TMDB_API_KEY /\ e.OMDB_API_KEY /\ e.CRON_SECRET}
    /\ InitCommon

\* Process p has run operation op on args with remote outcome out; r is the result.
\* The history keeps what the operation returned, whether a remote request of it
\* raised, and for a single rating set what the remote store held before.
Ran(p, op, args, out, r) ==
    /\ memoryCache' = [memoryCache EXCEPT ![p] = r.mem]
    /\ kv' = r.kv
    /\ last' = [op |-> op, p |-> p, args |-> args, ret |-> r.ret, threw |-> r.threw,
                calls |-> r.calls, raised |-> (r.calls > 0 /\ clientCall(out) # "ok"),
                held |-> IF op = "setCachedImdbRating"
                         THEN kv[cacheKey("imdb:rating", args.id)] ELSE Nil,
                seq |-> 1 - last.seq]
    /\ UNCHANGED <<env, now, job, resp, runsOn>>

\* The ids and values the callers of SpecCache use.
CacheProcs == {1}
CacheMediaTypes == {"movie"}
CacheTmdbIds == {1}
SomeMappings == UNION {[S -> {"tt1"}] : S \in SUBSET CacheTmdbIds}
CacheImdbIds == {"tt1", "tt2"}
SomeRatingMaps == UNION {[S -> Ratings] : S \in SUBSET CacheImdbIds}
SomeCronStates == {[dayIndex |-> 0, lastRunDate |-> 0, moviePage |-> 2, tvPage |-> 2],
                   [dayIndex |-> 1, lastRunDate |-> 1, moviePage |-> 3, tvPage |-> 2]}

GetRating(p) ==
    \E id \in CacheImdbIds, out \in KvOutcomes :
        Ran(p, "getCachedImdbRating", [id |-> id], out,
            getCachedImdbRating(memoryCache[p], kv, id, now, out))

GetRatings(p) ==
    \E ids \in SUBSET CacheImdbIds, out \in KvOutcomes :
        Ran(p, "getCachedImdbRatings", [ids |-> ids], out,
            getCachedImdbRatings(memoryCache[p], kv, ids, now, out))

SetRating(p) ==
    \E id \in CacheImdbIds, r \in Ratings, out \in KvOutcomes :
        Ran(p, "setCachedImdbRating", [id |-> id, rating |-> r], out,
            setCachedImdbRating(memoryCache[p], kv, id, r, now, out))

SetRatings(p) ==
    \E m \in SomeRatingMaps, out \in KvOutcomes :
        Ran(p, "setCachedImdbRatings", [ratings |-> m], out,
            setCachedImdbRatings(memoryCache[p], kv, m, now, out))

GetId(p) ==
    \E mt \in CacheMediaTypes, t \in CacheTmdbIds, out \in KvOutcomes :
        Ran(p, "getCachedImdbId", [mediaType |-> mt, tmdbId |-> t], out,
            getCachedImdbId(memoryCache[p], kv, mt, t, now, out))

GetIds(p) ==
    \E mt \in CacheMediaTypes, ts \in SUBSET CacheTmdbIds, out \in KvOutcomes :
        Ran(p, "getCachedImdbIds", [mediaType |-> mt, tmdbIds |-> ts], out,
            getCachedImdbIds(memoryCache[p], kv, mt, ts, now, out))

SetId(p) ==
    \E mt \in CacheMediaTypes, t \in CacheTmdbIds, out \in KvOutcomes :
        Ran(p, "setCachedImdbId", [mediaType |-> mt, tmdbId |-> t, imdbId |-> "tt1"], out,
            setCachedImdbId(memoryCache[p], kv, mt, t, "tt1", now, out))

SetIds(p) ==
    \E mt \in CacheMediaTypes, m \in SomeMappings, out \in KvOutcomes :
        Ran(p, "setCachedImdbIds", [mediaType |-> mt, mappings |-> m], out,
            setCachedImdbIds(memoryCache[p], kv, mt, m, now, out))

GetCronState(p) ==
    \E out \in KvOutcomes :
        Ran(p, "getCronState", Nil, out, getCronState(memoryCache[p], kv, out))

SetCronState(p) ==
    \E st \in SomeCronStates, out \in KvOutcomes :
        Ran(p, "setCronState", [state |-> st], out,
            setCronState(memoryCache[p], kv, st, out))

IncrementUsage(p) ==
    \E out \in KvOutcomes :
        /\ usageCount(kv, Today) < MaxUsage
        /\ Ran(p, "incrementOmdbUsage", [date |-> Today], out,
               incrementOmdbUsage(memoryCache[p], kv, Today, out))

GetUsage(p) ==
    \E out \in KvOutcomes :
        Ran(p, "getOmdbUsage", [date |-> Today], out,
            getOmdbUsage(memoryCache[p], kv, Today, out))

\* Time passes.
Tick ==
    /\ now < MaxTicks * TickMs
    /\ now' = now + TickMs
    /\ UNCHANGED <<env, kv, memoryCache, last, job, resp, runsOn>>

NextCache ==
    \/ \E p \in CacheProcs : GetRating(p)
    \/ \E p \in CacheProcs : GetRatings(p)
    \/ \E p \in CacheProcs : SetRating(p)
    \/ \E p \in CacheProcs : SetRatings(p)
    \/ \E p \in CacheProcs : GetId(p)
    \/ \E p \in CacheProcs : GetIds(p)
    \/ \E p \in CacheProcs : SetId(p)
    \/ \E p \in CacheProcs : SetIds(p)
    \/ Tick

\* Callers of the rating and id-mapping operations, and the clock.
SpecCache == InitCache /\ [][NextCache]_vars

NextCacheState ==
    \/ \E p \in CacheProcs : GetCronState(p)
    \/ \E p \in CacheProcs : SetCronState(p)
    \/ \E p \in CacheProcs : IncrementUsage(p)
    \/ \E p \in CacheProcs : GetUsage(p)
    \/ Tick

\* Callers of the cron-state and usage-counter operations.
SpecCacheState == InitCache /\ [][NextCacheState]_vars

\* "remote credentials missing, or not running in production"
CacheDisabled == env.NODE_ENV # "production" \/ ~env.KV_URL \/ ~env.KV_TOKEN

InitCacheOff == InitCache /\ CacheDisabled

NextCacheOff ==
    \/ \E p \in CacheProcs : GetRating(p)
    \/ \E p \in CacheProcs : GetRatings(p)
    \/ \E p \in CacheProcs : SetRating(p)
    \/ \E p \in CacheProcs : SetRatings(p)
    \/ \E p \in CacheProcs : GetId(p)
    \/ \E p \in CacheProcs : GetIds(p)
    \/ \E p \in CacheProcs : SetId(p)
    \/ \E p \in CacheProcs : SetIds(p)
    \/ \E p \in CacheProcs : GetCronState(p)
    \/ \E p \in CacheProcs : SetCronState(p)
    \/ \E p \in CacheProcs : IncrementUsage(p)
    \/ \E p \in CacheProcs : GetUsage(p)
    \/ Tick

\* Every exported operation, called in a deployment whose cache is disabled.
SpecCacheOff == InitCacheOff /\ [][NextCacheOff]_vars

----------------------------------------------------------------------------
(* Properties of the cache *)

ratingKey(id) == <<"imdb:rating", id>>
OneHourMs == 3600000
SingleGets == {"getCachedImdbRating", "getCachedImdbId", "getCronState", "getOmdbUsage"}
BatchGets == {"getCachedImdbRatings", "getCachedImdbIds"}
Sets == {"setCachedImdbRating", "setCachedImdbRatings", "setCachedImdbId",
         "setCachedImdbIds", "setCronState"}
CacheOn == ~CacheDisabled
OpRan == last'.seq # last.seq          \* this step is a cache operation

\* The keys a set operation writes, with the value it writes to each.
Written(l) ==
    IF l.op = "setCachedImdbRating"
        THEN [k \in {ratingKey(l.args.id)} |-> [rating |-> l.args.rating]]
    ELSE IF l.op = "setCachedImdbRatings"
        THEN [k \in {ratingKey(i) : i \in DOMAIN l.args.ratings} |->
                 [rating |-> l.args.ratings[k[2]]]]
    ELSE IF l.op = "setCachedImdbId"
        THEN [k \in {<<mapPrefix(l.args.mediaType), l.args.tmdbId>>} |->
                 [imdbId |-> l.args.imdbId]]
    ELSE [k \in {<<mapPrefix(l.args.mediaType), t>> : t \in DOMAIN l.args.mappings} |->
                 [imdbId |-> l.args.mappings[k[2]]]]

\* C6: no exported cache operation propagates an exception of the remote store:
\* whatever the store does, the operation returns.
CacheNeverThrows == ~last.threw

\* C7: while the cache is disabled, every get returns absent (a batch get the
\* empty map), every set returns without throwing, none of them issues a request
\* to the remote store, and the memory cache of every process stays empty.
DisabledCacheIsNoOp ==
    CacheDisabled =>
        /\ \A p \in Procs : memoryCache[p] = EmptyMemory
        /\ last.op \in SingleGets \cup BatchGets \cup Sets =>
              /\ ~last.threw
              /\ last.calls = 0
              /\ last.op \in SingleGets => last.ret = Nil
              /\ last.op \in BatchGets => DOMAIN last.ret = {}

\* C7 witness: a single-item set and an empty batch get have run in a
\* production-less deployment that has both credentials.
DisabledSetRan ==
    /\ env.NODE_ENV # "production" /\ env.KV_URL /\ env.KV_TOKEN
    /\ last.op = "setCachedImdbRating"
    /\ kv[ratingKey(last.args.id)] = Nil

\* C8: with the cache enabled, getCachedImdbRating(id) on a process whose memory
\* has no entry for id, the remote store holding r and answering, returns r and
\* stores it in memory for one hour; while now <= expiresAt the entry is served
\* with no remote request; once now > expiresAt the remote store is read again.
ColdStartCoherence ==
    [][ (OpRan /\ CacheOn /\ last'.op = "getCachedImdbRating") =>
          LET p == last'.p
              key == ratingKey(last'.args.id)
              e == memoryCache[p][key]
          IN /\ (e = Nil /\ kv[key] # Nil /\ ~last'.raised) =>
                    /\ last'.ret = Some(kv[key].rating)
                    /\ last'.calls = 1
                    /\ memoryCache'[p][key] =
                           [value |-> kv[key], expiresAt |-> now + OneHourMs]
             /\ (e # Nil /\ now <= e.expiresAt) =>
                    /\ last'.ret = Some(e.value.rating)
                    /\ last'.calls = 0
                    /\ memoryCache'[p] = memoryCache[p]
             /\ (e # Nil /\ now > e.expiresAt) => last'.calls = 1
      ]_vars

\* C8 witness: a get has just filled an empty memory entry from the remote store.
ColdStartFilled ==
    /\ last.op = "getCachedImdbRating" /\ last.calls = 1 /\ last.ret # Nil
    /\ memoryCache[last.p][ratingKey(last.args.id)] =
           [value |-> kv[ratingKey(last.args.id)], expiresAt |-> now + OneHourMs]

\* C9: a set (rating or id mapping, single or batch) whose remote write raised
\* returns normally, leaves the remote store as it was, and has written memory:
\* every get of a written key on that process, at any time up to the entry's
\* expiry one hour later and whatever the remote store then does, returns the
\* written value.
LocalWriteSurvivesRemoteFailure ==
    [][ (OpRan /\ CacheOn /\ last'.raised /\ last'.op \in Sets \ {"setCronState"}) =>
          LET w == Written(last') IN
          /\ ~last'.threw
          /\ kv' = kv
          /\ \A k \in DOMAIN w :
                /\ memoryCache'[last'.p][k] = [value |-> w[k], expiresAt |-> now + OneHourMs]
                /\ \A t \in {now, now + TickMs, now + OneHourMs}, out \in KvOutcomes :
                      getSingle(memoryCache'[last'.p], kv', k,
                                IF k[1] = "imdb:rating" THEN "rating" ELSE "imdbId",
                                t, out).ret
                        = Some(IF k[1] = "imdb:rating" THEN w[k].rating ELSE w[k].imdbId)
      ]_vars

\* C9 witness: a rating was set, the remote write raised, and the remote store
\* still holds another rating than memory.
LocalAheadOfRemote ==
    /\ last.op = "setCachedImdbRating" /\ last.raised
    /\ memoryCache[last.p][ratingKey(last.args.id)] # Nil
    /\ memoryCache[last.p][ratingKey(last.args.id)].value.rating = last.args.rating
    /\ kv[ratingKey(last.args.id)] # Nil
    /\ kv[ratingKey(last.args.id)].rating # last.args.rating

\* C10: with the cache enabled, setCachedImdbRating(id, r) whose remote write was
\* accepted leaves r under id in memory and in the remote store, whatever either
\* held before (r itself or another rating), the next get of id returns r, and
\* no other key of either tier changes.
SetRatingOverwrites ==
    [][ (OpRan /\ CacheOn /\ last'.op = "setCachedImdbRating" /\ ~last'.raised) =>
          LET p == last'.p
              key == ratingKey(last'.args.id)
              r == last'.args.rating
          IN /\ memoryCache'[p][key].value = [rating |-> r]
             /\ kv'[key] = [rating |-> r]
             /\ \A out \in KvOutcomes :
                   getCachedImdbRating(memoryCache'[p], kv', last'.args.id, now, out).ret
                     = Some(r)
             /\ \A k \in KvKeys \ {key} : kv'[k] = kv[k]
             /\ \A k \in MemKeys \ {key} : memoryCache'[p][k] = memoryCache[p][k]
             /\ \A q \in Procs \ {p} : memoryCache'[q] = memoryCache[q]
      ]_vars

\* C10 witness: a rating was set over another rating that an earlier set had
\* stored, after which both tiers hold the new one.
SetRatingTwice ==
    /\ last.op = "setCachedImdbRating" /\ ~last.raised /\ CacheOn
    /\ last.held # Nil /\ last.held.rating # last.args.rating
    /\ kv[ratingKey(last.args.id)] = [rating |-> last.args.rating]
    /\ memoryCache[last.p][ratingKey(last.args.id)].value = [rating |-> last.args.rating]

----------------------------------------------------------------------------
(* src/app/api/cron/imdb-cache/route.ts                                     *)
(*                                                                         *)
(* Three constants are scaled down so that a run of the model reaches the  *)
(* page ceiling and the new-ratings target and splits a page into chunks:  *)
(* the source sets REQUEST_CONCURRENCY, MAX_TMDB_PAGES and                 *)
(* TARGET_NEW_RATINGS to 5, 500 and 1000.                                  *)

DAYS_IN_CYCLE == 30
REQUEST_CONCURRENCY == 2
MAX_TMDB_PAGES == 2
TARGET_NEW_RATINGS == 2

\* A request: its authorization header ("secret" is `Bearer ${CRON_SECRET}` of a
\* configured secret) and whether x-vercel-cron is "1".
Requests == [authorization : {"none", "secret", "other"}, vercelCron : BOOLEAN]

\* Mutant: any authorization header passes once a secret is configured.
isAuthorizedCronAnyBearer(request) ==
    IF env.CRON_SECRET /\ request.authorization # "none"
    THEN TRUE
    ELSE IF request.vercelCron
         THEN TRUE
         ELSE env.NODE_ENV # "production"

isAuthorizedCron(request) ==
    IF env.CRON_SECRET /\ request.authorization = "secret"
    THEN TRUE
    ELSE IF request.vercelCron
         THEN TRUE
         ELSE env.NODE_ENV # "production"

\* The catalog: what a page of /movie/popular or /tv/popular may list, and the
\* imdb_id the catalog has for a title.
MoviePages == {<<>>, <<1, 2>>}
TvPages == {<<>>, <<1>>}
Catalog == [movie |-> MoviePages, tv |-> TvPages]
ShortCatalog == [movie |-> {<<>>, <<1>>}, tv |-> {<<>>}]
ImdbOf(mediaType, id) == IF mediaType = "tv" THEN "tt3" ELSE IF id = 1 THEN "tt1" ELSE "tt2"

\* How a fetch of a popular page ends: rejected, or with the ids of its results
\* (none for a non-ok response or a body without results).
PageFetches(pages) ==
    {[rejected |-> TRUE, ids |-> <<>>]} \cup {[rejected |-> FALSE, ids |-> r] : r \in pages}
NotFetched == [rejected |-> FALSE, ids |-> <<>>]      \* Promise.resolve([])

fetchPopularPage(mediaType, f) ==
    [j \in 1..Len(f.ids) |-> [id |-> f.ids[j], media_type |-> mediaType]]

\* How the fetch of a title's external_ids ends: "reject" (the fetch rejects, or
\* the body does not parse), "none" (a non-ok response, or no imdb_id), "found".
ExtOutcomes == {"reject", "none", "found"}

\* What the OMDb request of fetchOmdbRating may meet: the request rejects, the
\* response is not ok, or it is ok with a body whose Response and imdbRating
\* fields are these texts ("" stands for a field that is missing).
OmdbTexts == {"", "N/A", "-1", "0", "5", "11"}
OmdbRejects == [kind |-> "reject", Response |-> "", imdbRating |-> ""]
OmdbOutcomes ==
    {OmdbRejects, [kind |-> "notok", Response |-> "", imdbRating |-> ""]}
      \cup [kind : {"body"}, Response : {"True", "False"}, imdbRating : OmdbTexts]
ShortOmdbOutcomes ==
    {OmdbRejects} \cup [kind : {"body"}, Response : {"True"}, imdbRating : {"N/A", "5"}]

\* parseFloat on the texts of OmdbTexts.
NaN == [nan |-> TRUE]
parseFloat(text) ==
    CASE text = "-1" -> Some(-1)
      [] text = "0" -> Some(0)
      [] text = "5" -> Some(5)
      [] text = "11" -> Some(11)
      [] OTHER -> NaN

\* What fetchOmdbRating returns once the request has met o.
omdbRating(o) ==
    IF o.kind # "body" THEN Nil                  \* caught, or !response.ok
    ELSE IF o.Response = "True" /\ o.imdbRating # ""
         THEN LET rating == parseFloat(o.imdbRating)
              IN IF rating = NaN THEN Nil ELSE rating
         ELSE Nil

\* Mutant: the usage is counted after the request, and only for a rating.
fetchOmdbRatingCountSuccess(kvs, imdbId, date, inc, o) ==
    IF ~env.OMDB_API_KEY
    THEN [ret |-> Nil, kv |-> kvs, omdb |-> 0, kvCalls |-> 0, threw |-> FALSE]
    ELSE LET u == incrementOmdbUsage(EmptyMemory, kvs, date, inc) IN
         IF omdbRating(o) = Nil \/ u.threw
         THEN [ret |-> Nil, kv |-> kvs, omdb |-> 1, kvCalls |-> 0, threw |-> FALSE]
         ELSE [ret |-> omdbRating(o), kv |-> u.kv, omdb |-> 1, kvCalls |-> 1,
               threw |-> FALSE]

\* fetchOmdbRating: inc is the outcome of the usage increment, o of the request.
\* The result: the rating or Nil, the store, the OMDb requests issued, and
\* whether the call threw.
fetchOmdbRating(kvs, imdbId, date, inc, o) ==
    IF ~env.OMDB_API_KEY
    THEN [ret |-> Nil, kv |-> kvs, omdb |-> 0, kvCalls |-> 0, threw |-> FALSE]
    ELSE LET u == incrementOmdbUsage(EmptyMemory, kvs, date, inc) IN
         IF u.threw
         THEN [ret |-> Nil, kv |-> kvs, omdb |-> 0, kvCalls |-> 1,      \* caught
               threw |-> FALSE]
         ELSE [ret |-> omdbRating(o), kv |-> u.kv, omdb |-> 1, kvCalls |-> 1,
               threw |-> FALSE]

\* Mutant: the guard never skips.
alreadyRanNever(state, today) == FALSE

\* state?.lastRunDate === today
alreadyRan(state, today) == state # Nil /\ state.lastRunDate = today

\* Mutant: the modulo is missing.
nextDayIndexNoWrap(state) == (IF state = Nil THEN -1 ELSE state.dayIndex) + 1

nextDayIndexOf(state) == ((IF state = Nil THEN -1 ELSE state.dayIndex) + 1) % DAYS_IN_CYCLE

\* Mutant: the cursors are never reset.
startPageNoReset(state, nextDayIndex, field) == IF state = Nil THEN 1 ELSE state[field]

\* state?.moviePage ?? 1, reset to 1 when nextDayIndex === 0
startPage(state, nextDayIndex, field) ==
    IF nextDayIndex = 0 THEN 1
    ELSE IF state = Nil THEN 1 ELSE state[field]

whileCond(j) ==
    /\ j.newRatings < TARGET_NEW_RATINGS
    /\ (j.moviePage <= MAX_TMDB_PAGES \/ j.tvPage <= MAX_TMDB_PAGES)

Min(a, b) == IF a < b THEN a ELSE b

\* What a step of the handler did: the requests it issued to the catalog API, to
\* OMDb and to the remote store, and whether a request to the store raised; the
\* first step of an invocation keeps the request it handles.
CronStep(p, step, tmdb, omdb, kvCalls, raised) ==
    [op |-> "GET", p |-> p, step |-> step, tmdb |-> tmdb, omdb |-> omdb,
     calls |-> kvCalls, raised |-> raised, request |-> Nil]

Respond(p, status, body, thrown) ==
    /\ resp' = [p |-> p, status |-> status, body |-> body, thrown |-> thrown]
    /\ job' = [job EXCEPT ![p] = IdleJob]

\* How many invocations have passed the skip guard on the dates up to d.
RECURSIVE runsUpTo(_)
runsUpTo(d) == IF d < 0 THEN 0 ELSE runsOn[d] + runsUpTo(d - 1)

\* GET up to the end of `await getCronState()` and the skip guard; cap bounds
\* the invocations that pass the guard.
StartUpTo(p, cap) ==
    /\ job[p].pc = "idle"
    /\ \E request \in Requests, out \in KvOutcomes :
        IF ~isAuthorizedCron(request)
        THEN /\ Respond(p, 401, [error |-> "Unauthorized"], "no")
             /\ last' = [CronStep(p, "start", 0, 0, 0, FALSE) EXCEPT !.request = request]
             /\ UNCHANGED <<env, now, kv, memoryCache, runsOn>>
        ELSE IF ~env.TMDB_API_KEY \/ ~env.OMDB_API_KEY
        THEN /\ Respond(p, 500, [error |-> "TMDB_API_KEY and OMDB_API_KEY are required"], "no")
             /\ last' = [CronStep(p, "start", 0, 0, 0, FALSE) EXCEPT !.request = request]
             /\ UNCHANGED <<env, now, kv, memoryCache, runsOn>>
        ELSE IF ~isImdbCacheEnabled
        THEN /\ Respond(p, 500, [error |-> "KV is not configured for IMDb cache"], "no")
             /\ last' = [CronStep(p, "start", 0, 0, 0, FALSE) EXCEPT !.request = request]
             /\ UNCHANGED <<env, now, kv, memoryCache, runsOn>>
        ELSE LET today == Today
                 r == getCronState(memoryCache[p], kv, out)
                 state == r.ret
                 nextDayIndex == nextDayIndexOf(state)
             IN /\ last' = [CronStep(p, "start", 0, 0, r.calls, r.threw)
                              EXCEPT !.request = request]
                /\ UNCHANGED <<env, now, kv, memoryCache>>
                /\ IF r.threw
                   THEN /\ Respond(p, 500, Nil, "start")
                        /\ UNCHANGED runsOn
                   ELSE IF alreadyRan(state, today)
                   THEN /\ Respond(p, 200, [status |-> "skipped", reason |-> "Already ran today",
                                            dayIndex |-> state.dayIndex], "no")
                        /\ UNCHANGED runsOn
                   ELSE /\ runsUpTo(MaxDays) < cap
                        /\ runsOn' = [runsOn EXCEPT ![today] = @ + 1]
                        /\ resp' = NoResp
                        /\ job' = [job EXCEPT ![p] =
                              LET j == [pc |-> "loop", today |-> today,
                                        nextDayIndex |-> nextDayIndex,
                                        moviePage |-> startPage(state, nextDayIndex, "moviePage"),
                                        tvPage |-> startPage(state, nextDayIndex, "tvPage"),
                                        processed |-> 0, cachedRatings |-> 0,
                                        fetchedRatings |-> 0, missingRatings |-> 0,
                                        missingImdbId |-> 0, newRatings |-> 0,
                                        moviePagesScanned |-> 0, tvPagesScanned |-> 0,
                                        titles |-> <<>>, i |-> 0, imdbIdsByTitle |-> <<>>]
                              IN [j EXCEPT !.pc = IF whileCond(j) THEN "loop" ELSE "finish"]]

Start(p) == StartUpTo(p, MaxRuns)

\* Mutant: the cursor stays on its page.
nextPageSame(page, results) == page

\* `if (results.length > 0) { page += 1 }`
nextPage(page, results) == IF Len(results) > 0 THEN page + 1 ELSE page

\* One pass of the while loop up to the chunk loop: the two page fetches, the
\* cursors, the break on an empty pair of pages.
\* cat: the pages the catalog API may answer with.
FetchPages(p, cat) ==
    /\ job[p].pc = "loop"
    /\ LET j == job[p] IN
       \E fm \in IF j.moviePage <= MAX_TMDB_PAGES THEN PageFetches(cat.movie) ELSE {NotFetched},
          ft \in IF j.tvPage <= MAX_TMDB_PAGES THEN PageFetches(cat.tv) ELSE {NotFetched} :
          LET issued == (IF j.moviePage <= MAX_TMDB_PAGES THEN 1 ELSE 0)
                          + (IF j.tvPage <= MAX_TMDB_PAGES THEN 1 ELSE 0)
              movieResults == fetchPopularPage("movie", fm)
              tvResults == fetchPopularPage("tv", ft)
              titles == movieResults \o tvResults
          IN /\ last' = CronStep(p, "pages", issued, 0, 0, FALSE)
             /\ UNCHANGED <<env, now, kv, memoryCache, runsOn>>
             /\ IF fm.rejected \/ ft.rejected
                THEN Respond(p, 500, Nil, "run")
                ELSE /\ resp' = NoResp
                     /\ job' = [job EXCEPT ![p] =
                          [j EXCEPT
                             !.moviePagesScanned = IF Len(movieResults) > 0 THEN @ + 1 ELSE @,
                             !.moviePage = nextPage(@, movieResults),
                             !.tvPagesScanned = IF Len(tvResults) > 0 THEN @ + 1 ELSE @,
                             !.tvPage = nextPage(@, tvResults),
                             !.titles = titles,
                             !.i = 0,
                             !.pc = IF Len(titles) = 0 THEN "finish" ELSE "chunk"]]

chunkOf(j) == SubSeq(j.titles, j.i + 1, Min(j.i + REQUEST_CONCURRENCY, Len(j.titles)))

\* Mutant: a title the catalog has no id for is recorded with an empty id.
newMappingsWithAbsent(chunk, ext, mt) ==
    [id \in {chunk[n].id : n \in {m \in DOMAIN ext : /\ ext[m] \in {"found", "none"}
                                                      /\ chunk[m].media_type = mt}}
        |-> IF \E n \in DOMAIN ext : chunk[n] = [id |-> id, media_type |-> mt]
                                        /\ ext[n] = "found"
            THEN ImdbOf(mt, id) ELSE ""]

\* newMovieMappings / newTvMappings: the ids the external_ids fetches found.
newMappingsOf(chunk, ext, mt) ==
    [id \in {chunk[n].id : n \in {m \in DOMAIN ext : /\ ext[m] = "found"
                                                      /\ chunk[m].media_type = mt}}
        |-> ImdbOf(mt, id)]

\* The first half of a chunk: the cached mappings, the external_ids fetches of
\* the titles without one, the write of the new mappings.  K: how a request of
\* the cache to the remote store may end.  (A result bound by \E over a
\* one-element set is computed once per step.)
ResolveIds(p, K) ==
    /\ job[p].pc = "chunk"
    /\ LET j == job[p]
           chunk == chunkOf(j)
           idx == 1..Len(chunk)
           movieIds == {chunk[n].id : n \in {m \in idx : chunk[m].media_type = "movie"}}
           tvIds == {chunk[n].id : n \in {m \in idx : chunk[m].media_type = "tv"}}
       IN
       \E gm \in IF movieIds # {} THEN K ELSE {"ok"},
          gt \in IF tvIds # {} THEN K ELSE {"ok"} :
          \E rm \in {IF movieIds # {}
                       THEN getCachedImdbIds(memoryCache[p], kv, "movie", movieIds, now, gm)
                       ELSE Done(memoryCache[p], kv, <<>>, 0)} :
          \E rt \in {IF tvIds # {}
                       THEN getCachedImdbIds(rm.mem, kv, "tv", tvIds, now, gt)
                       ELSE Done(rm.mem, kv, <<>>, 0)} :
          LET cached == [n \in idx |->
                           LET m == IF chunk[n].media_type = "movie" THEN rm.ret ELSE rt.ret
                           IN IF chunk[n].id \in DOMAIN m THEN Some(m[chunk[n].id]) ELSE Nil]
              fetched == {n \in idx : cached[n] = Nil}
              reads == rm.calls + rt.calls
              readRaised == (rm.calls > 0 /\ gm # "ok") \/ (rt.calls > 0 /\ gt # "ok")
          IN
          \E ext \in [fetched -> ExtOutcomes] :
             LET found == {n \in fetched : ext[n] = "found"}
                 imdbId == [n \in idx |->
                              IF cached[n] # Nil THEN cached[n]
                              ELSE IF n \in found
                                   THEN Some(ImdbOf(chunk[n].media_type, chunk[n].id))
                                   ELSE Nil]
                 newOf(mt) == newMappingsOf(chunk, ext, mt)
             IN /\ UNCHANGED <<env, now, runsOn>>
                /\ IF \E n \in fetched : ext[n] = "reject"
                   THEN \* Promise.all rejects and nothing catches it
                        /\ Respond(p, 500, Nil, "run")
                        /\ memoryCache' = [memoryCache EXCEPT ![p] = rt.mem]
                        /\ kv' = kv
                        /\ last' = CronStep(p, "ids", Cardinality(fetched), 0, reads,
                                            readRaised)
                   ELSE \E sm \in IF DOMAIN newOf("movie") # {} THEN K ELSE {"ok"},
                           st \in IF DOMAIN newOf("tv") # {} THEN K ELSE {"ok"} :
                        \E wm \in {IF DOMAIN newOf("movie") # {}
                                     THEN setCachedImdbIds(rt.mem, kv, "movie",
                                                           newOf("movie"), now, sm)
                                     ELSE Done(rt.mem, kv, Nil, 0)} :
                        \E wt \in {IF DOMAIN newOf("tv") # {}
                                     THEN setCachedImdbIds(wm.mem, wm.kv, "tv", newOf("tv"),
                                                           now, st)
                                     ELSE Done(wm.mem, wm.kv, Nil, 0)} :
                           /\ resp' = NoResp
                           /\ memoryCache' = [memoryCache EXCEPT ![p] = wt.mem]
                           /\ kv' = wt.kv
                           /\ last' = CronStep(p, "ids", Cardinality(fetched), 0,
                                               reads + wm.calls + wt.calls,
                                               readRaised \/ (wm.calls > 0 /\ sm # "ok")
                                                          \/ (wt.calls > 0 /\ st # "ok"))
                           /\ job' = [job EXCEPT ![p] =
                                         [j EXCEPT !.imdbIdsByTitle = imdbId,
                                                   !.pc = "ratings"]]

\* fetchOmdbRating for every index of todo, one after the other: the store, the
\* rating or Nil per index, and the requests issued.
RECURSIVE fetchAll(_, _, _, _, _, _)
fetchAll(kvs, todo, ids, date, inc, om) ==
    IF todo = {}
    THEN [kv |-> kvs, ret |-> <<>>, omdb |-> 0, kvCalls |-> 0, raised |-> FALSE]
    ELSE LET n == CHOOSE x \in todo : \A y \in todo : x <= y
             f == fetchOmdbRating(kvs, ids[n].some, date, inc[n], om[n])
             rest == fetchAll(f.kv, todo \ {n}, ids, date, inc, om)
         IN [kv |-> rest.kv,
             ret |-> [x \in todo |-> IF x = n THEN f.ret ELSE rest.ret[x]],
             omdb |-> f.omdb + rest.omdb,
             kvCalls |-> f.kvCalls + rest.kvCalls,
             raised |-> (f.kvCalls > f.omdb) \/ rest.raised]

\* Mutant: the chunk loop runs to the end of the titles.
afterChunkAllTitles(j) ==
    IF j.i < Len(j.titles) THEN "chunk"
    ELSE IF whileCond(j) THEN "loop"
    ELSE "finish"

\* Where the handler goes after a chunk: the next chunk, the next pass of the
\* while loop, or the final write.
afterChunk(j) ==
    IF j.i < Len(j.titles) /\ j.newRatings < TARGET_NEW_RATINGS THEN "chunk"
    ELSE IF whileCond(j) THEN "loop"
    ELSE "finish"

\* Mutant: an item without mapping is not counted.
tallyNoMissingId(j, missing, hits, got, todo) ==
    [j EXCEPT !.cachedRatings = @ + Cardinality(hits),
              !.fetchedRatings = @ + Cardinality(got),
              !.newRatings = @ + Cardinality(got),
              !.missingRatings = @ + Cardinality(todo \ got)]

\* The counters after the items of a chunk: those without mapping, the cache
\* hits, and of the ids fetched (todo) those that got a rating.
tally(j, missing, hits, got, todo) ==
    [j EXCEPT !.missingImdbId = @ + Cardinality(missing),
              !.cachedRatings = @ + Cardinality(hits),
              !.fetchedRatings = @ + Cardinality(got),
              !.newRatings = @ + Cardinality(got),
              !.missingRatings = @ + Cardinality(todo \ got)]

\* The second half of a chunk: the cached ratings, fetchOmdbRating for the ids
\* without one, the write of the new ratings, the counters.  K: how a request
\* of the cache to the remote store may end; O: what an OMDb request may meet.
FetchRatings(p, K, O) ==
    /\ job[p].pc = "ratings"
    /\ LET j == job[p]
           ids == j.imdbIdsByTitle
           idx == DOMAIN ids
           imdbIds == {ids[n].some : n \in {m \in idx : ids[m] # Nil}}
       IN
       \E g \in IF imdbIds # {} THEN K ELSE {"ok"} :
          \E rg \in {IF imdbIds # {}
                       THEN getCachedImdbRatings(memoryCache[p], kv, imdbIds, now, g)
                       ELSE Done(memoryCache[p], kv, <<>>, 0)} :
          LET missing == {n \in idx : ids[n] = Nil}
              hits == {n \in idx \ missing : ids[n].some \in DOMAIN rg.ret}
              todo == idx \ (missing \cup hits)
          IN
          \E inc \in [todo -> K], om \in [todo -> O] :
             \E fa \in {fetchAll(kv, todo, ids, Today, inc, om)} :
             LET got == {n \in todo : fa.ret[n] # Nil}
                 ratingsToWrite == [i \in {ids[n].some : n \in got} |->
                                      LET n == CHOOSE m \in got : ids[m].some = i
                                      IN fa.ret[n].some]
             IN /\ (\A n \in todo : inc[n] # "ok" => om[n] = OmdbRejects)  \* no request
                /\ \E w \in IF DOMAIN ratingsToWrite # {} THEN K ELSE {"ok"} :
                   \E rw \in {IF DOMAIN ratingsToWrite # {}
                                THEN setCachedImdbRatings(rg.mem, fa.kv, ratingsToWrite, now, w)
                                ELSE Done(rg.mem, fa.kv, Nil, 0)} :
                   /\ UNCHANGED <<env, now, runsOn>>
                   /\ resp' = NoResp
                   /\ memoryCache' = [memoryCache EXCEPT ![p] = rw.mem]
                   /\ kv' = rw.kv
                   /\ last' = CronStep(p, "ratings", 0, fa.omdb,
                                       rg.calls + fa.kvCalls + rw.calls,
                                       (rg.calls > 0 /\ g # "ok") \/ fa.raised
                                          \/ (rw.calls > 0 /\ w # "ok"))
                   /\ job' = [job EXCEPT ![p] =
                        LET j1 == [tally(j, missing, hits, got, todo) EXCEPT
                                     !.processed = @ + Len(ids),
                                     !.i = @ + REQUEST_CONCURRENCY,
                                     !.imdbIdsByTitle = <<>>]
                        IN [j1 EXCEPT !.pc = afterChunk(j1)]]

\* The body of the "ok" response.
okBody(j) ==
    [status |-> "ok", dayIndex |-> j.nextDayIndex, moviePage |-> j.moviePage,
     tvPage |-> j.tvPage, moviePagesScanned |-> j.moviePagesScanned,
     tvPagesScanned |-> j.tvPagesScanned, processed |-> j.processed,
     cachedRatings |-> j.cachedRatings, fetchedRatings |-> j.fetchedRatings,
     missingRatings |-> j.missingRatings, missingImdbId |-> j.missingImdbId,
     newRatings |-> j.newRatings, targetNewRatings |-> TARGET_NEW_RATINGS]

\* The state the run persists.
finalState(j) ==
    [dayIndex |-> j.nextDayIndex, lastRunDate |-> j.today,
     moviePage |-> j.moviePage, tvPage |-> j.tvPage]

\* `await setCronState(...)` and the response.
Finish(p) ==
    /\ job[p].pc = "finish"
    /\ \E out \in KvOutcomes :
        LET r == setCronState(memoryCache[p], kv, finalState(job[p]), out) IN
        /\ kv' = r.kv
        /\ last' = CronStep(p, "finish", 0, 0, r.calls, r.threw)
        /\ UNCHANGED <<env, now, memoryCache, runsOn>>
        /\ IF r.threw
           THEN Respond(p, 500, Nil, "finish")
           ELSE Respond(p, 200, okBody(job[p]), "no")

\* The UTC date changes.
NextDay ==
    /\ now < MaxDays * DayMs
    /\ now' = now + DayMs
    /\ UNCHANGED <<env, kv, memoryCache, last, job, resp, runsOn>>

\* A state a deployment has persisted on the eve of date 0: the last day of a
\* cycle, with both cursors advanced.
EveOfWrap == [dayIndex |-> DAYS_IN_CYCLE - 1, lastRunDate |-> -1, moviePage |-> 2, tvPage |-> 3]

\* The deployments of the cron specification: every configuration that stops
\* the handler before the run, and the complete one, where the run happens.
EnvCron ==
    {e \in EnvAll : e.CRON_SECRET \/ ~(e.NODE_ENV = "production" /\ e.KV_URL /\ e.KV_TOKEN
                                          /\ e.TMDB_API_KEY /\ e.OMDB_API_KEY)}

\* A deployment on date 0: a fresh store, or one that holds EveOfWrap.
Init ==
    /\ env \in EnvCron
    /\ now = 0
    /\ kv \in {EmptyKv, [EmptyKv EXCEPT ![CronStateKey] = EveOfWrap]}
    /\ memoryCache = [p \in Procs |-> EmptyMemory]
    /\ last = NoOp
    /\ job = [p \in Procs |-> IdleJob]
    /\ resp = NoResp
    /\ runsOn = [d \in Dates |-> 0]

Next ==
    \/ \E p \in Procs : Start(p)
    \/ \E p \in Procs : FetchPages(p, ShortCatalog)
    \/ \E p \in Procs : ResolveIds(p, {"ok"})
    \/ \E p \in Procs : FetchRatings(p, {"ok"}, ShortOmdbOutcomes)
    \/ \E p \in Procs : Finish(p)
    \/ NextDay

\* The cron endpoint, invoked on either process at any time, over two dates.
Spec == Init /\ [][Next]_vars

\* One deployment, complete, on date 0 with a fresh store.
InitRun ==
    /\ env = [NODE_ENV |-> "production", KV_URL |-> TRUE, KV_TOKEN |-> TRUE,
              TMDB_API_KEY |-> TRUE, OMDB_API_KEY |-> TRUE, CRON_SECRET |-> TRUE]
    /\ InitCommon

NextRun ==
    \/ Start(1)
    \/ FetchPages(1, Catalog)
    \/ ResolveIds(1, {"ok"})
    \/ FetchRatings(1, {"ok"}, ShortOmdbOutcomes)
    \/ Finish(1)

\* The invocations of one process on one date against the whole catalog: pages
\* of three titles, split into chunks.
SpecRun == InitRun /\ [][NextRun]_vars

\* The same invocation when every call the handler awaits returns: each step
\* of the run that can be taken is taken.
SpecRunLive ==
    /\ InitRun
    /\ [][NextRun]_vars
    /\ WF_vars(FetchPages(1, Catalog))
    /\ WF_vars(ResolveIds(1, {"ok"}))
    /\ WF_vars(FetchRatings(1, {"ok"}, ShortOmdbOutcomes))
    /\ WF_vars(Finish(1))

\* A caller runs fetchOmdbRating(imdbId); inc is the outcome of the usage
\* increment, o what the OMDb request meets.
FetchOmdb(p) ==
    \E imdbId \in {"tt1"}, inc \in KvOutcomes, o \in OmdbOutcomes :
        LET f == fetchOmdbRating(kv, imdbId, Today, inc, o) IN
        /\ usageCount(kv, Today) < MaxUsage
        /\ kv' = f.kv
        /\ last' = [op |-> "fetchOmdbRating", p |-> p,
                    args |-> [imdbId |-> imdbId, inc |-> inc, o |-> o],
                    ret |-> f.ret, threw |-> f.threw, omdb |-> f.omdb,
                    calls |-> f.kvCalls, seq |-> 1 - last.seq]
        /\ UNCHANGED <<env, now, memoryCache, job, resp, runsOn>>

InitFetch == env \in EnvAll /\ InitCommon

NextFetch ==
    \/ \E p \in Procs : FetchOmdb(p)
    \/ NextDay

\* fetchOmdbRating called in every deployment, over two dates.
SpecFetch == InitFetch /\ [][NextFetch]_vars

NextTitle ==
    \/ Start(1)
    \/ FetchPages(1, ShortCatalog)
    \/ ResolveIds(1, KvOutcomes)
    \/ FetchRatings(1, KvOutcomes, OmdbOutcomes)
    \/ Finish(1)

\* The invocations of one process on one date against a catalog of one title,
\* with a remote store that may raise at every request and every answer of OMDb.
SpecTitle == InitRun /\ [][NextTitle]_vars

(***************************************************************************)
(* src/unnamed/part_003 and src/app/api/tmdb/popular/route.ts:             *)
(* enrichShowsWithIMDBRatings                                              *)
(*                                                                         *)
(* batchSize is scaled down so that a short list spans two batches; the    *)
(* source sets it to 5.                                                    *)
(***************************************************************************)

batchSize == 2
MaxShows == 3

\* shows.slice(0, 20)
EnrichLimit == 20

\* A show as the enrichment reads and writes it: id (Nil: a malformed item with
\* no numeric id), imdb_id and imdb_rating (Nil: undefined).
Show(id, imdbId, rating) == [id |-> id, imdb_id |-> imdbId, imdb_rating |-> rating]
ShowPage == <<Show(Nil, Nil, Nil), Show(Some(1), Nil, Nil), Show(Some(2), Nil, Nil)>>

\* The shows of s at the positions keep, in their order.
RECURSIVE pick(_, _)
pick(s, keep) ==
    IF s = <<>> THEN <<>>
    ELSE LET rest == pick(SubSeq(s, 1, Len(s) - 1), keep)
         IN IF Len(s) \in keep THEN Append(rest, s[Len(s)]) ELSE rest

\* The lists a caller passes: the shows of a page of results, or some of them.
ShowLists == {pick(ShowPage, keep) : keep \in SUBSET (1..MaxShows)}

\* How the external_ids fetch of a show ends.
extOf(show, ext) == IF show.id = Nil THEN "none" ELSE ext[show.id.some]

\* A call in progress on a process: which of the two functions it is, the
\* list as the caller passed it, the caller's list as it is now (the loop
\* writes to its items), the index of the next batch and enrichedShows.
EnrichJob(op, shows) ==
    [pc |-> "enrich", op |-> op, input |-> shows, shows |-> shows, i |-> 1,
     enrichedShows |-> <<>>]

\* The call of process p ends: with ret returned, or rejected (threw).
\* failed: a request inside the call failed.
Returned(p, op, input, shows, ret, threw, failed) ==
    /\ last' = [op |-> op, p |-> p, args |-> [shows |-> input], ret |-> ret,
                threw |-> threw, failed |-> failed, shows |-> shows, seq |-> 0]
    /\ job' = [job EXCEPT ![p] = IdleJob]

\* A caller on process p calls op, one of the two functions, with a list of
\* shows.  An empty list is returned at once: by the check at the top in
\* src/unnamed/part_003, by the loop that has nothing to do in popular/route.ts.
CallEnrich(p, op) ==
    /\ job[p].pc = "idle"
    /\ \E shows \in ShowLists :
          IF Len(shows) = 0
          THEN Returned(p, op, shows, shows, <<>>, FALSE, FALSE)
          ELSE /\ job' = [job EXCEPT ![p] = EnrichJob(op, shows)]
               /\ UNCHANGED last
    /\ UNCHANGED <<env, now, kv, memoryCache, resp, runsOn>>

\* One pass of the for loop, and the return after the last one.  All requests
\* of the cache to the remote store end as out; ext[id] is how the external_ids
\* fetch of the title id ends.  An item without id is looked up and fetched as
\* "undefined": no mapping is ever cached under that key and the catalog API
\* answers the request with 404.  A rejected fetch rejects Promise.all: the
\* catch of src/unnamed/part_003 returns `shows`, popular/route.ts has none.
EnrichBatch(p) ==
    /\ job[p].pc = "enrich"
    /\ LET j == job[p]
           items == j.shows
           last20 == Min(EnrichLimit, Len(items))
           hi == Min(j.i + batchSize - 1, last20)
           idx == j.i..hi
           tmdbIds == {items[n].id.some : n \in {m \in idx : items[m].id # Nil}}
       IN
       \E out \in KvOutcomes, ext \in [tmdbIds -> ExtOutcomes] :
       \E rm \in {getCachedImdbIds(memoryCache[p], kv, "movie", tmdbIds, now, out)} :
          LET cached == [n \in idx |->
                           IF items[n].id # Nil /\ items[n].id.some \in DOMAIN rm.ret
                           THEN Some(rm.ret[items[n].id.some]) ELSE Nil]
              enriched == {n \in idx : items[n].imdb_rating # Nil}
              fetched == {n \in idx \ enriched : cached[n] = Nil}
              found == {n \in fetched : extOf(items[n], ext) = "found"}
          IN
          /\ UNCHANGED <<env, now, resp, runsOn>>
          /\ IF \E n \in fetched : extOf(items[n], ext) = "reject"
             THEN /\ memoryCache' = [memoryCache EXCEPT ![p] = rm.mem]
                  /\ kv' = kv
                  /\ IF j.op = "enrichShowsWithIMDBRatings"
                     THEN Returned(p, j.op, j.input, items, items, FALSE, TRUE)
                     ELSE Returned(p, j.op, j.input, items, Nil, TRUE, TRUE)
             ELSE
             \E imdbId \in {[n \in idx |->
                               IF n \in enriched THEN items[n].imdb_id
                               ELSE IF cached[n] # Nil THEN cached[n]
                               ELSE IF n \in found
                                    THEN Some(ImdbOf("movie", items[n].id.some))
                                    ELSE Nil]} :
             \E newMappings \in {[id \in {items[n].id.some : n \in found}
                                     |-> ImdbOf("movie", id)]} :
             \E wm \in {IF DOMAIN newMappings # {}
                        THEN setCachedImdbIds(rm.mem, rm.kv, "movie", newMappings, now, out)
                        ELSE Done(rm.mem, rm.kv, Nil, 0)} :
             \E imdbIds \in {{imdbId[n].some :
                                n \in {m \in idx : imdbId[m] # Nil
                                                     /\ items[m].imdb_rating = Nil}}} :
             \E ratings \in {IF imdbIds # {}
                             THEN getCachedImdbRatings(wm.mem, wm.kv, imdbIds, now, out)
                             ELSE Done(wm.mem, wm.kv, <<>>, 0)} :
             \E after \in {[n \in idx |->
                              IF imdbId[n] = Nil THEN items[n]
                              ELSE [items[n] EXCEPT
                                      !.imdb_id = imdbId[n],
                                      !.imdb_rating =
                                          IF @ = Nil /\ imdbId[n].some \in DOMAIN ratings.ret
                                          THEN Some(ratings.ret[imdbId[n].some])
                                          ELSE @]]} :
             \E shows \in {[n \in DOMAIN items |-> IF n \in idx THEN after[n]
                                                   ELSE items[n]]} :
             \E enrichedShows \in {j.enrichedShows
                                      \o [n \in 1..(hi - j.i + 1) |-> after[j.i + n - 1]]} :
                /\ memoryCache' = [memoryCache EXCEPT ![p] = ratings.mem]
                /\ kv' = wm.kv
                /\ IF hi >= last20
                   THEN Returned(p, j.op, j.input, shows,
                                 enrichedShows \o SubSeq(shows, last20 + 1, Len(shows)),
                                 FALSE, FALSE)
                   ELSE /\ job' = [job EXCEPT ![p] =
                                      [j EXCEPT !.i = @ + batchSize, !.shows = shows,
                                                !.enrichedShows = enrichedShows]]
                        /\ UNCHANGED last

\* What the cron job has left in the store when a page is enriched: nothing
\* yet, or the rating of one title.
InitEnrich ==
    /\ env = [NODE_ENV |-> "production", KV_URL |-> TRUE, KV_TOKEN |-> TRUE,
              TMDB_API_KEY |-> TRUE, OMDB_API_KEY |-> TRUE, CRON_SECRET |-> TRUE]
    /\ now = 0
    /\ kv \in {EmptyKv, setCachedImdbRating(EmptyMemory, EmptyKv, "tt1", 9, 0, "ok").kv}
    /\ memoryCache = [p \in Procs |-> EmptyMemory]
    /\ last = NoOp
    /\ job = [p \in Procs |-> IdleJob]
    /\ resp = NoResp
    /\ runsOn = [d \in Dates |-> 0]

NextEnrich ==
    \/ CallEnrich(1, "enrichShowsWithIMDBRatings")
    \/ CallEnrich(1, "enrichShowsWithIMDBRatingsPopular")
    \/ EnrichBatch(1)

\* The two enrichment functions called on one process, over lists of up to
\* MaxShows shows.
SpecEnrich == InitEnrich /\ [][NextEnrich]_vars

(***************************************************************************)
(* src/lib/tmdb.ts: sortShowsByComprehensiveScore                          *)
(*                                                                         *)
(* The scores are kept exact: a score is counted in units of 1/20000 (a    *)
(* base score in units of 1/2000, a multiplier in tenths), and the inputs  *)
(* are integers, for which every weight of the source gives an integer.    *)
(***************************************************************************)

MaxSortLen == 3
MaxEpisodes == 11

\* Math.log10(revenue + 1), for the revenues of the inputs.
log10(x) == CASE x = 1 -> 0 [] x = 10 -> 1 [] x = 100 -> 2

\* `field || 0`
orZero(field) == IF field = Nil THEN 0 ELSE field.some

hasPoster(a) == a.poster_path # Nil

\* (a.popularity || 0) * 0.25
popularityScore(a) == 500 * orZero(a.popularity)

\* ((vote_average || 0) * 10 + Math.min((vote_count || 0) / 1000, 1) * 50) * 0.35
reviewScore(a) == 7000 * orZero(a.vote_average) + Min(35 * orZero(a.vote_count), 35000)

\* Math.min(Math.log10(revenue + 1) / 10, 1) * 100 * 0.25
boxOffice(a) == 5000 * Min(log10(orZero(a.revenue) + 1), 10)

\* Math.max(0, (10 - Math.min(order ?? 999, 10)) / 10) * 100 * 0.15
roleScore(a) ==
    LET order == IF a.order = Nil THEN 999 ELSE a.order.some
        points == 10 - Min(order, 10)
    IN 3000 * (IF points > 0 THEN points ELSE 0)

baseScore(a) == popularityScore(a) + reviewScore(a) + boxOffice(a) + roleScore(a)

\* Mutant: the episode penalty is applied whatever the media type.
multiplierAnyMedia(a) ==
    IF a.episode_count # Nil
    THEN LET episodeCount == a.episode_count.some IN
         IF episodeCount = 0 \/ episodeCount = 1 THEN 1
         ELSE IF episodeCount <= 3 THEN 3
         ELSE IF episodeCount <= 5 THEN 5
         ELSE IF episodeCount <= 9 THEN 7
         ELSE 10
    ELSE 10

\* aMultiplier, in tenths.
multiplier(a) ==
    IF a.media_type = "tv" /\ a.episode_count # Nil
    THEN LET episodeCount == a.episode_count.some IN
         IF episodeCount = 0 \/ episodeCount = 1 THEN 1
         ELSE IF episodeCount <= 3 THEN 3
         ELSE IF episodeCount <= 5 THEN 5
         ELSE IF episodeCount <= 9 THEN 7
         ELSE 10
    ELSE 10

\* aScore
score(a) == baseScore(a) * multiplier(a)

\* Mutant: the comparison by score alone.
compareByScore(a, b) == score(b) - score(a)

\* The comparison function handed to sort.
compare(a, b) ==
    IF hasPoster(a) # hasPoster(b)
    THEN IF hasPoster(b) THEN 1 ELSE -1
    ELSE score(b) - score(a)

\* Array.prototype.sort is stable: x goes behind every item of the sorted
\* list that does not compare greater than it.
RECURSIVE insertSorted(_, _)
insertSorted(sorted, x) ==
    IF sorted = <<>> THEN <<x>>
    ELSE IF compare(Head(sorted), x) > 0 THEN <<x>> \o sorted
    ELSE <<Head(sorted)>> \o insertSorted(Tail(sorted), x)

RECURSIVE sortArray(_)
sortArray(arr) ==
    IF arr = <<>> THEN <<>>
    ELSE insertSorted(sortArray(SubSeq(arr, 1, Len(arr) - 1)), arr[Len(arr)])

\* Mutant: shows.sort(...), which sorts the caller's array.
sortShowsInPlace(shows) == [ret |-> sortArray(shows), shows |-> sortArray(shows)]

\* [...shows].sort(...): what is returned, and the caller's array after the call.
sortShowsByComprehensiveScore(shows) == [ret |-> sortArray(shows), shows |-> shows]

\* The values the fields of a show take: what drives the base score ...
ScoreProfiles ==
    {[popularity |-> Nil, vote_average |-> Nil, vote_count |-> Nil, revenue |-> Nil,
      order |-> Nil],
     [popularity |-> Some(40), vote_average |-> Nil, vote_count |-> Nil, revenue |-> Nil,
      order |-> Some(12)],
     [popularity |-> Some(1), vote_average |-> Some(8), vote_count |-> Some(2000),
      revenue |-> Nil, order |-> Some(3)],
     [popularity |-> Some(2), vote_average |-> Some(6), vote_count |-> Some(100),
      revenue |-> Some(99), order |-> Some(0)]}
\* ... and what drives the multiplier.
ShowKinds ==
    [media_type : {"movie", "tv"},
     episode_count : {Nil} \cup {Some(n) : n \in 0..MaxEpisodes}]
Posters == {Nil, Some("/poster.jpg")}

SortShow(poster, profile, kind) ==
    [poster_path |-> poster, popularity |-> profile.popularity,
     vote_average |-> profile.vote_average, vote_count |-> profile.vote_count,
     revenue |-> profile.revenue, order |-> profile.order,
     media_type |-> kind.media_type, episode_count |-> kind.episode_count]

\* Every show of the value sets, and the ones the longer lists are made of.
AllSortShows == {SortShow(po, pr, k) : po \in Posters, pr \in ScoreProfiles, k \in ShowKinds}
ListSortShows ==
    {a \in AllSortShows :
        a.episode_count \in (IF a.media_type = "tv" THEN {Some(1), Some(10)} ELSE {Nil})}
SortInputs ==
    UNION {[1..n -> ListSortShows] : n \in 0..MaxSortLen} \cup [1..1 -> AllSortShows]

\* A caller holds a list of shows ...
InitSort ==
    /\ env = [NODE_ENV |-> "production", KV_URL |-> TRUE, KV_TOKEN |-> TRUE,
              TMDB_API_KEY |-> TRUE, OMDB_API_KEY |-> TRUE, CRON_SECRET |-> TRUE]
    /\ now = 0
    /\ kv = EmptyKv
    /\ memoryCache = [p \in Procs |-> EmptyMemory]
    /\ last \in {[op |-> "shows", p |-> 1, args |-> [shows |-> shows]] : shows \in SortInputs}
    /\ job = [p \in Procs |-> IdleJob]
    /\ resp = NoResp
    /\ runsOn = [d \in Dates |-> 0]

\* ... and sorts it.  scores: the score the comparison computes for each item
\* of the list.
Sort ==
    /\ last.op = "shows"
    /\ LET shows == last.args.shows
           r == sortShowsByComprehensiveScore(shows)
       IN last' = [op |-> "sortShowsByComprehensiveScore", p |-> last.p,
                   args |-> [shows |-> shows], ret |-> r.ret, shows |-> r.shows,
                   scores |-> [n \in DOMAIN shows |-> score(shows[n])]]
    /\ UNCHANGED <<env, now, kv, memoryCache, job, resp, runsOn>>

SpecSort == InitSort /\ [][Sort]_vars

(***************************************************************************)
(* Properties of the cron job                                              *)
(***************************************************************************)

CycleState == kv[CronStateKey]

FullyConfigured ==
    /\ env.NODE_ENV = "production" /\ env.KV_URL /\ env.KV_TOKEN
    /\ env.TMDB_API_KEY /\ env.OMDB_API_KEY

\* The request carries the configured secret or the scheduler's header.
Authorized(request) ==
    \/ env.CRON_SECRET /\ request.authorization = "secret"
    \/ request.vercelCron

\* This step is the first step of an invocation on process p.
StartStep(p) ==
    /\ job[p].pc = "idle" /\ now' = now
    /\ last'.op = "GET" /\ last'.step = "start" /\ last'.p = p

\* This step ends a run of process p, with a response or with an exception.
RunEnds(p) == job[p].pc # "idle" /\ job'[p].pc = "idle"

Running(p) == job[p].pc # "idle"

\* C1: of the invocations on one UTC date, overlapping ones included, at most
\* one passes the skip guard and runs: no two runs of one date are in flight.
OneRunPerDate ==
    \A p, q \in Procs :
        (p # q /\ Running(p) /\ Running(q)) => job[p].today # job[q].today

SkippedBody(dayIndex) ==
    [status |-> "skipped", reason |-> "Already ran today", dayIndex |-> dayIndex]

\* C2: when the persisted state has lastRunDate = today, an authorized and fully
\* configured invocation whose read of the state does not raise answers 200 with
\* the skipped body and the persisted dayIndex; raising or not, it issues no
\* request to the catalog API or to OMDb, writes nothing to the store or to the
\* process cache, and does not start a run.
SkipIfAlreadyRun ==
    [][\A p \in Procs :
          (/\ StartStep(p)
           /\ FullyConfigured
           /\ Authorized(last'.request)
           /\ CycleState # Nil
           /\ CycleState.lastRunDate = Today)
          => /\ kv' = kv
             /\ memoryCache' = memoryCache
             /\ last'.tmdb = 0 /\ last'.omdb = 0
             /\ ~Running(p)'
             /\ runsOn' = runsOn
             /\ (~last'.raised =>
                   resp' = [p |-> p, status |-> 200,
                            body |-> SkippedBody(CycleState.dayIndex), thrown |-> "no"])
      ]_vars

\* An invocation has been skipped on the date a run has persisted.
SkippedToday ==
    /\ last.op = "GET" /\ last.step = "start"
    /\ resp.status = 200
    /\ resp.body = SkippedBody(CycleState.dayIndex)
    /\ CycleState.lastRunDate = Today
    /\ runsOn[Today] = 1

\* C3: every run that has passed the skip guard ends by writing the state
\* (nextDayIndex, the date read at its start, the cursors at loop exit) and
\* answering "ok".
RunEndsByPersisting ==
    [][\A p \in Procs :
          RunEnds(p) => /\ CycleState' = finalState(job[p])
                        /\ resp'.status = 200
      ]_vars

\* C4: a run never fails: no run ends with an exception.
RunNeverFails == resp.thrown \notin {"run", "finish"}

\* C5: the persisted dayIndex is in 0..29; a run computes (persisted dayIndex
\* + 1) mod 30, 0 without a persisted state, and persists it; it starts both
\* kinds at page 1 when that index is 0 and at the persisted cursors otherwise.
DayIndexCycles ==
    [][/\ CycleState' # Nil => CycleState'.dayIndex \in 0..29
       /\ \A p \in Procs :
            /\ (StartStep(p) /\ Running(p)') =>
                  LET index == IF CycleState = Nil THEN 0
                               ELSE (CycleState.dayIndex + 1) % 30
                  IN /\ job'[p].nextDayIndex = index
                     /\ IF index = 0 \/ CycleState = Nil
                        THEN job'[p].moviePage = 1 /\ job'[p].tvPage = 1
                        ELSE /\ job'[p].moviePage = CycleState.moviePage
                             /\ job'[p].tvPage = CycleState.tvPage
            /\ (RunEnds(p) /\ CycleState' # CycleState) =>
                  CycleState'.dayIndex = job[p].nextDayIndex
      ]_vars

\* A run has just started from a persisted index of 29 with cursors 2 and 3:
\* it computes index 0 and starts both kinds at page 1.
WrapRestartsAtPageOne ==
    \E p \in Procs :
        /\ last.op = "GET" /\ last.step = "start" /\ last.p = p
        /\ CycleState = EveOfWrap
        /\ job[p].pc = "loop" /\ job[p].nextDayIndex = 0
        /\ job[p].moviePage = 1 /\ job[p].tvPage = 1

\* C11: every rating stored in either tier is in 0..10: an OMDb answer whose
\* rating is outside that range is never written by the job.
StoredRatingsInRange ==
    \A k \in RatingKeys :
        /\ kv[k] # Nil => kv[k].rating \in 0..10
        /\ \A p \in Procs :
              memoryCache[p][k] # Nil => memoryCache[p][k].value.rating \in 0..10

\* The texts that parse as a positive rating, with the rating.
PositiveRatings == [t \in {"5", "11"} |-> IF t = "5" THEN 5 ELSE 11]

\* C12: fetchOmdbRating never throws; it returns absent when the OMDb key is
\* missing, when the usage increment raises (and then issues no request), when
\* the request rejects or is not ok, and when the body does not parse as a
\* positive rating; otherwise it returns the parsed rating.
FetchRatingContract ==
    last.op = "fetchOmdbRating" =>
        LET o == last.args.o
            incRaised == env.OMDB_API_KEY /\ last.calls = 1 /\ last.omdb = 0
            parses == /\ o.kind = "body" /\ o.Response = "True"
                      /\ o.imdbRating \in DOMAIN PositiveRatings
        IN /\ ~last.threw
           /\ ~env.OMDB_API_KEY => last.omdb = 0 /\ last.calls = 0
           /\ IF ~env.OMDB_API_KEY \/ incRaised \/ ~parses
              THEN last.ret = Nil
              ELSE last.ret = Some(PositiveRatings[o.imdbRating])

\* The three ways a request is accepted.
Accepted(request) ==
    \/ env.CRON_SECRET /\ request.authorization = "secret"
    \/ request.vercelCron
    \/ env.NODE_ENV # "production"

\* C13: a request is accepted exactly when a secret is configured and the
\* authorization header is "Bearer <secret>", or x-vercel-cron is "1", or the
\* deployment is not in production; every other request is answered 401
\* {error: "Unauthorized"} with no request to the store, to the catalog API or
\* to OMDb, no change of the store or of the process cache, and no run.
AuthorizationGate ==
    [][\A p \in Procs :
          StartStep(p) =>
             IF Accepted(last'.request)
             THEN resp'.status # 401
             ELSE /\ resp' = [p |-> p, status |-> 401,
                              body |-> [error |-> "Unauthorized"], thrown |-> "no"]
                  /\ kv' = kv
                  /\ memoryCache' = memoryCache
                  /\ last'.calls = 0 /\ last'.tmdb = 0 /\ last'.omdb = 0
                  /\ ~Running(p)'
                  /\ runsOn' = runsOn
      ]_vars

\* A request with another bearer token than the configured secret, and without
\* the scheduler's header, has been answered 401 in production.
WrongBearerRefused ==
    /\ last.op = "GET" /\ last.step = "start"
    /\ env.NODE_ENV = "production" /\ env.CRON_SECRET
    /\ last.request = [authorization |-> "other", vercelCron |-> FALSE]
    /\ resp.status = 401
    /\ CycleState # Nil

\* C14: an accepted request in a deployment that lacks the catalog key or the
\* OMDb key, or whose cache is not enabled, is answered 500 with an error field
\* before CycleState is read: no request to the store, to the catalog API or to
\* OMDb, nothing written, no run.
ConfigurationGate ==
    [][\A p \in Procs :
          (StartStep(p) /\ Accepted(last'.request) /\ ~FullyConfigured) =>
             /\ resp'.p = p /\ resp'.status = 500 /\ resp'.thrown = "no"
             /\ resp'.body \in [error : {"TMDB_API_KEY and OMDB_API_KEY are required",
                                         "KV is not configured for IMDb cache"}]
             /\ last'.calls = 0 /\ last'.tmdb = 0 /\ last'.omdb = 0
             /\ kv' = kv
             /\ memoryCache' = memoryCache
             /\ ~Running(p)'
             /\ runsOn' = runsOn
      ]_vars

\* An accepted request has been answered 500 in a development deployment that
\* has both keys and both credentials: its cache is not enabled.
DisabledCacheRefused ==
    /\ last.op = "GET" /\ last.step = "start"
    /\ env.NODE_ENV # "production" /\ env.KV_URL /\ env.KV_TOKEN
    /\ env.TMDB_API_KEY /\ env.OMDB_API_KEY
    /\ resp.status = 500
    /\ resp.body = [error |-> "KV is not configured for IMDb cache"]

Enrichments == {"enrichShowsWithIMDBRatings", "enrichShowsWithIMDBRatingsPopular"}

\* C15: the batch enrichment never rejects: it returns a list, and when a
\* request inside it failed, the list it returns is the input list with no
\* item modified.
EnrichNeverRejects ==
    last.op \in Enrichments =>
        /\ ~last.threw
        /\ last.failed => last.ret = last.args.shows

\* The remote store holds the mapping of a title, and the rating of an id:
\* only a chunk that obtained them writes them.
mapKey(title) == cacheKey(mapPrefix(title.media_type), title.id)
MappingStored(title) == kv[mapKey(title)] # Nil
RatingStored(imdbId) == kv[ratingKey(imdbId)] # Nil

\* C16: an item whose mapping and rating an earlier processing obtained and
\* wrote back costs no request when it is processed again and no request to
\* the remote store raises: the chunk issues external_ids requests at most for
\* its other titles and OMDb requests (and usage increments) at most for its
\* other ids, every such item is counted in cachedRatings and none in
\* newRatings, and its rating stays as stored and is the one the process holds.
CachedItemCostsNothing ==
    [][\A p \in Procs :
        /\ (job[p].pc = "chunk" /\ last'.op = "GET" /\ last'.p = p /\ last'.step = "ids"
              /\ ~last'.raised)
           => LET chunk == chunkOf(job[p]) IN
              last'.tmdb <= Cardinality({n \in DOMAIN chunk : ~MappingStored(chunk[n])})
        /\ (job[p].pc = "ratings" /\ last'.op = "GET" /\ last'.p = p
              /\ last'.step = "ratings" /\ ~last'.raised)
           => LET ids == job[p].imdbIdsByTitle
                  known == {n \in DOMAIN ids : ids[n] # Nil /\ RatingStored(ids[n].some)}
                  others == DOMAIN ids \ known
              IN /\ last'.omdb <= Cardinality(others)
                 /\ usageCount(kv', Today) - usageCount(kv, Today) <= Cardinality(others)
                 /\ job'[p].cachedRatings >= job[p].cachedRatings + Cardinality(known)
                 /\ job'[p].newRatings <= job[p].newRatings + Cardinality(others)
                 /\ \A n \in known :
                      LET key == ratingKey(ids[n].some) IN
                      /\ kv'[key] = kv[key]
                      /\ memoryCache'[p][key] # Nil
                      /\ \/ memoryCache'[p][key].value = kv[key]
                         \/ /\ memoryCache[p][key] # Nil
                            /\ memoryCache'[p][key].value = memoryCache[p][key].value
      ]_vars

\* A chunk of stored items has been processed again: no OMDb request, and the
\* hit counted.
StoredItemHit ==
    /\ last.op = "GET" /\ last.step = "ratings"
    /\ last.omdb = 0
    /\ job[last.p].pc # "idle"
    /\ job[last.p].cachedRatings > 0

Sorted == last.op = "sortShowsByComprehensiveScore"

\* C17: in the list sortShowsByComprehensiveScore returns, every item with a
\* poster_path that is not null stands before every item whose poster_path is
\* null, whatever the scores; the list it was given is left as it was.
PostersFirst ==
    Sorted =>
        /\ \A i, j \in DOMAIN last.ret :
              (last.ret[i].poster_path # Nil /\ last.ret[j].poster_path = Nil) => i < j
        /\ last.shows = last.args.shows

\* A list was sorted in which an item without poster with the higher score
\* stood first, and now stands behind the item with a poster.
PosterBeatsScore ==
    /\ Sorted
    /\ Len(last.ret) >= 2
    /\ last.args.shows[1].poster_path = Nil
    /\ last.args.shows[2].poster_path # Nil
    /\ score(last.args.shows[1]) > score(last.args.shows[2])
    /\ last.ret # last.args.shows

\* The multiplier this claim states, in tenths.
EpisodePenalty(a) ==
    IF a.media_type # "tv" \/ a.episode_count = Nil THEN 10
    ELSE CASE a.episode_count.some \in 0..1 -> 1
           [] a.episode_count.some \in 2..3 -> 3
           [] a.episode_count.some \in 4..5 -> 5
           [] a.episode_count.some \in 6..9 -> 7
           [] OTHER -> 10

\* The base score of an item in the unit of its score.
unpenalized(a) == 10 * baseScore(a)

\* C18: the score of an item is its base score times 0.1 for a series of 0 or
\* 1 episodes, 0.3 for 2-3, 0.5 for 4-5, 0.7 for 6-9, 1.0 for 10 or more, and
\* 1.0 for every movie and every series whose episode_count is undefined.
EpisodeMultiplier ==
    Sorted =>
        \A n \in DOMAIN last.args.shows :
            LET a == last.args.shows[n] IN
            /\ last.scores[n] = baseScore(a) * EpisodePenalty(a)
            /\ (a.media_type = "tv" /\ a.episode_count = Some(1))
                  => 10 * last.scores[n] = unpenalized(a)
            /\ (a.media_type = "tv" /\ a.episode_count = Some(10))
                  => last.scores[n] = unpenalized(a)

\* A series of one episode with a positive base score was scored at a tenth
\* of it.
OneEpisodeScored ==
    /\ Sorted
    /\ \E n \in DOMAIN last.args.shows :
          LET a == last.args.shows[n] IN
          /\ a.media_type = "tv" /\ a.episode_count = Some(1)
          /\ baseScore(a) > 0
          /\ 10 * last.scores[n] = unpenalized(a)

\* Process p is inside the while loop of a run.
InLoop(p) == job[p].pc \in {"loop", "chunk", "ratings"}

\* The step p takes from the top of the while loop: the page fetches.
PagesStep(p) ==
    job[p].pc = "loop" /\ last'.op = "GET" /\ last'.p = p /\ last'.step = "pages"

\* The loop of p ends with this step, the run going on to its final write.
LoopEnds(p) == InLoop(p) /\ job'[p].pc = "finish"

\* What the steps of the loop of p obey: a page fetch that does not end the
\* loop moves a cursor forward; the loop ends only with the target reached,
\* with both cursors beyond the ceiling, or with page fetches that returned no
\* item at all; and it does end in each of these three cases.
LoopStep(p) ==
    /\ (PagesStep(p) /\ InLoop(p)')
          => \/ job'[p].moviePage > job[p].moviePage
             \/ job'[p].tvPage > job[p].tvPage
    /\ LoopEnds(p)
          => \/ job'[p].newRatings >= TARGET_NEW_RATINGS
             \/ job'[p].moviePage > MAX_TMDB_PAGES /\ job'[p].tvPage > MAX_TMDB_PAGES
             \/ PagesStep(p) /\ job'[p].titles = <<>>
    /\ (InLoop(p) /\ job'[p].pc = "loop")
          => /\ job'[p].newRatings < TARGET_NEW_RATINGS
             /\ job'[p].moviePage <= MAX_TMDB_PAGES \/ job'[p].tvPage <= MAX_TMDB_PAGES
    /\ (InLoop(p) /\ job'[p].pc = "chunk") => job'[p].newRatings < TARGET_NEW_RATINGS
    /\ (PagesStep(p) /\ job'[p].pc # "idle"
           /\ job'[p].moviePage = job[p].moviePage /\ job'[p].tvPage = job[p].tvPage)
          => job'[p].pc = "finish"

\* C19 (as amended): when every call returns, the loop of a run terminates; it
\* ends when the target of new ratings is reached, when both cursors exceed
\* the ceiling, or when the pages fetched in an iteration return no item at
\* all; every iteration that does not end the loop moves a cursor forward.
LoopTerminates ==
    /\ \A p \in Procs : InLoop(p) ~> ~InLoop(p)
    /\ [][\A p \in Procs : LoopStep(p)]_vars

\* A loop has ended with both cursors beyond the ceiling and the target not
\* reached.
CeilingEndsLoop ==
    /\ job[1].pc = "finish"
    /\ job[1].moviePage > MAX_TMDB_PAGES /\ job[1].tvPage > MAX_TMDB_PAGES
    /\ job[1].newRatings < TARGET_NEW_RATINGS

\* C19 (as stated): the loop ends as soon as one fetched page returns zero
\* items.
EmptyPageEndsLoop ==
    [][\A p \in Procs :
        (PagesStep(p) /\ job'[p].pc # "idle"
           /\ \/ job[p].moviePage <= MAX_TMDB_PAGES /\ job'[p].moviePage = job[p].moviePage
              \/ job[p].tvPage <= MAX_TMDB_PAGES /\ job'[p].tvPage = job[p].tvPage)
        => job'[p].pc = "finish"]_vars

\* The ratings the step stores that the store did not hold: with one process
\* and no failing write, the ratings its OMDb fetches returned.
NewlyStored == {k \in RatingKeys : kv[k] = Nil /\ kv'[k] # Nil}

\* The step p takes is the one named step of the handler.
StepOf(p, step) == Running(p) /\ last'.op = "GET" /\ last'.p = p /\ last'.step = step

\* C20: newRatings grows by one for every rating an OMDb fetch of the chunk
\* returned and by nothing else (not by a cache hit, a missing mapping or a
\* fetch without rating); no page and no chunk is started with newRatings at
\* the target; so newRatings never exceeds the target plus the chunk size
\* minus one.
OnlyNewRatingsCount ==
    [][\A p \in Procs :
        /\ StepOf(p, "ratings")
              => /\ job'[p].newRatings - job[p].newRatings = Cardinality(NewlyStored)
                 /\ job'[p].newRatings - job[p].newRatings <= last'.omdb
                 /\ job'[p].newRatings - job[p].newRatings
                       = job'[p].fetchedRatings - job[p].fetchedRatings
        /\ (Running(p) /\ Running(p)' /\ ~StepOf(p, "ratings"))
              => job'[p].newRatings = job[p].newRatings
        /\ (StepOf(p, "pages") \/ StepOf(p, "ids"))
              => job[p].newRatings < TARGET_NEW_RATINGS
        /\ Running(p)'
              => job'[p].newRatings <= TARGET_NEW_RATINGS + REQUEST_CONCURRENCY - 1
      ]_vars

\* A run ends its loop with newRatings at the target plus the chunk size minus
\* one.
TargetOvershot ==
    /\ job[1].pc = "finish"
    /\ job[1].newRatings = TARGET_NEW_RATINGS + REQUEST_CONCURRENCY - 1
    /\ job[1].cachedRatings + job[1].missingRatings + job[1].missingImdbId > 0

\* The OMDb requests process p has issued in its run so far: with the key
\* configured and the usage increments succeeding, one for every item it has
\* counted as fetched or as missing a rating.
omdbRequests(p) == job[p].fetchedRatings + job[p].missingRatings

\* C21: in a single run the number of OMDb requests issued, successful or not,
\* is at most the target of new ratings plus one chunk.
RequestsBoundedByTarget ==
    \A p \in Procs :
        Running(p) => omdbRequests(p) <= TARGET_NEW_RATINGS + REQUEST_CONCURRENCY

Fetched == last'.op = "fetchOmdbRating" /\ last' # last

usageDelta == usageCount(kv', Today) - usageCount(kv, Today)

\* C22: with the OMDb key configured, a fetchOmdbRating call whose increment
\* reaches the store raises the usage counter of the current UTC date by exactly
\* one, whatever the request then does; no call issues a request without that
\* increment having succeeded first, so the counter of a date never falls behind
\* the requests issued on it, whichever process fetches; other dates' counters
\* are left alone.
UsageCountsEveryRequest ==
    [][Fetched =>
        /\ (env.OMDB_API_KEY /\ clientCall(last'.args.inc) = "ok") =>
               usageDelta = 1 /\ last'.omdb = 1
        /\ last'.omdb <= usageDelta
        /\ usageDelta <= 1
        /\ \A d \in Dates \ {Today} : usageCount(kv', d) = usageCount(kv, d)]_vars

\* A request that failed after its increment, issued while another process had
\* already counted one on the same date.
FailedRequestCounted ==
    /\ last.op = "fetchOmdbRating"
    /\ last.args.o = OmdbRejects
    /\ last.omdb = 1
    /\ usageCount(kv, Today) = 2

\* ---- The loop of GET, request by request ----

\* A request in flight: the pass of the while loop and the offset of the chunk
\* it was issued for (-1: the popular pages of the pass), its kind, and the
\* media type or the index in the chunk it is for.
Request(j, kind, n) == [pass |-> j.pass, i |-> j.i, kind |-> kind, n |-> n]

NoMaps == [movie |-> <<>>, tv |-> <<>>]

\* The locals of the loop at its first pass.
FlightJob ==
    [pc |-> "flight", phase |-> "pages", issued |-> FALSE, inflight |-> {},
     pass |-> 1, i |-> -1, moviePage |-> 1, tvPage |-> 1, newRatings |-> 0,
     pages |-> NoMaps, titles |-> <<>>, mappings |-> NoMaps, newMappings |-> NoMaps,
     imdbIdsByTitle |-> <<>>, cachedRatingsMap |-> <<>>, ratingsToWrite |-> <<>>,
     owed |-> {}, refused |-> {}]

idsOfType(j, mt) ==
    {chunkOf(j)[n].id : n \in {m \in DOMAIN chunkOf(j) : chunkOf(j)[m].media_type = mt}}

\* The requests the handler issues at once when it reaches an await.
requestsOf(j) ==
    CASE j.phase = "pages" ->
           {Request(j, "popular", mt) :
              mt \in {m \in {"movie", "tv"} :
                        (IF m = "movie" THEN j.moviePage ELSE j.tvPage) <= MAX_TMDB_PAGES}}
      [] j.phase = "mappings" ->
           {Request(j, "mget:map", mt) : mt \in {m \in {"movie", "tv"} : idsOfType(j, m) # {}}}
      [] j.phase = "externalIds" ->
           {Request(j, "external_ids", n) :
              n \in {m \in DOMAIN j.imdbIdsByTitle : j.imdbIdsByTitle[m] = Nil}}
      [] j.phase = "setMappings" ->
           {Request(j, "mset:map", mt) :
              mt \in {m \in {"movie", "tv"} : DOMAIN j.newMappings[m] # {}}}
      [] j.phase = "cachedRatings" ->
           IF \E n \in DOMAIN j.imdbIdsByTitle : j.imdbIdsByTitle[n] # Nil
           THEN {Request(j, "mget:rating", 0)} ELSE {}
      [] j.phase = "items" ->
           {Request(j, "incr", n) :
              n \in {m \in DOMAIN j.imdbIdsByTitle :
                       /\ j.imdbIdsByTitle[m] # Nil
                       /\ j.imdbIdsByTitle[m].some \notin DOMAIN j.cachedRatingsMap}}
      [] j.phase = "setRatings" ->
           IF DOMAIN j.ratingsToWrite # {} THEN {Request(j, "mset:rating", 0)} ELSE {}

\* The top of the for loop at offset j.i: its break, or a new chunk.
startChunk(j) ==
    IF afterChunk(j) = "chunk"
    THEN [j EXCEPT !.phase = "mappings", !.mappings = NoMaps, !.newMappings = NoMaps,
                   !.imdbIdsByTitle = <<>>, !.cachedRatingsMap = <<>>,
                   !.ratingsToWrite = <<>>]
    ELSE IF afterChunk(j) = "loop"
         THEN [j EXCEPT !.phase = "pages", !.pass = @ + 1, !.i = -1, !.pages = NoMaps]
         ELSE [j EXCEPT !.pc = "done"]

\* Mutant: an await of several promises resumes at the first that settles.
settledAny(j) == TRUE

\* await Promise.all([...]): the handler resumes when every promise has settled.
settled(j) == j.inflight = {}

\* The handler resumes after the await of j.phase.
advance(j) ==
    CASE j.phase = "pages" ->
           LET titles == j.pages.movie \o j.pages.tv IN
           IF Len(titles) = 0
           THEN [j EXCEPT !.pc = "done",
                          !.moviePage = nextPage(@, j.pages.movie),
                          !.tvPage = nextPage(@, j.pages.tv)]
           ELSE startChunk([j EXCEPT !.moviePage = nextPage(@, j.pages.movie),
                                     !.tvPage = nextPage(@, j.pages.tv),
                                     !.titles = titles, !.i = 0])
      [] j.phase = "mappings" ->
           [j EXCEPT !.phase = "externalIds",
                     !.imdbIdsByTitle =
                        [n \in DOMAIN chunkOf(j) |->
                           LET t == chunkOf(j)[n] IN
                           IF t.id \in DOMAIN j.mappings[t.media_type]
                           THEN Some(j.mappings[t.media_type][t.id]) ELSE Nil]]
      [] j.phase = "externalIds" -> [j EXCEPT !.phase = "setMappings"]
      [] j.phase = "setMappings" -> [j EXCEPT !.phase = "cachedRatings"]
      [] j.phase = "cachedRatings" -> [j EXCEPT !.phase = "items"]
      [] j.phase = "items" -> [j EXCEPT !.phase = "setRatings"]
      [] j.phase = "setRatings" -> startChunk([j EXCEPT !.i = @ + REQUEST_CONCURRENCY])

resume(j) == IF settled(j) THEN advance([j EXCEPT !.issued = FALSE]) ELSE j

\* The handler reaches the await of its phase and issues the requests of it.
Issue(p) ==
    /\ job[p].pc = "flight" /\ ~job[p].issued
    /\ job' = [job EXCEPT ![p] =
                 IF requestsOf(@) = {} THEN advance(@)
                 ELSE [@ EXCEPT !.issued = TRUE, !.inflight = @ \cup requestsOf(job[p])]]
    /\ last' = [op |-> "issue", p |-> p, args |-> requestsOf(job[p])]
    /\ UNCHANGED <<env, now, kv, memoryCache, resp, runsOn>>

owe(j, r, keys) == j.owed \cup {[pass |-> r.pass, i |-> r.i, key |-> k] : k \in keys}

\* One request in flight completes; K: how a request to the store may end.
Complete(p, K) ==
    /\ job[p].pc = "flight"
    /\ \E r \in job[p].inflight :
       LET j == [job[p] EXCEPT !.inflight = @ \ {r}]
           mem == memoryCache[p]
       IN
       /\ last' = [op |-> "complete", p |-> p, args |-> r]
       /\ UNCHANGED <<env, now, resp, runsOn>>
       /\ CASE r.kind = "popular" ->
                 \E f \in PageFetches(Catalog[r.n]) :
                    /\ UNCHANGED <<kv, memoryCache>>
                    /\ job' = [job EXCEPT ![p] =
                         IF f.rejected THEN [j EXCEPT !.pc = "threw"]
                         ELSE resume([j EXCEPT !.pages[r.n] = fetchPopularPage(r.n, f)])]
            [] r.kind = "mget:map" ->
                 \E g \in K :
                 \E res \in {getCachedImdbIds(mem, kv, r.n, idsOfType(j, r.n), now, g)} :
                    /\ kv' = res.kv
                    /\ memoryCache' = [memoryCache EXCEPT ![p] = res.mem]
                    /\ job' = [job EXCEPT ![p] = resume([j EXCEPT !.mappings[r.n] = res.ret])]
            [] r.kind = "external_ids" ->
                 \E e \in ExtOutcomes :
                    LET t == chunkOf(j)[r.n]
                        imdbId == ImdbOf(t.media_type, t.id)
                    IN
                    /\ UNCHANGED <<kv, memoryCache>>
                    /\ job' = [job EXCEPT ![p] =
                         IF e = "reject" THEN [j EXCEPT !.pc = "threw"]
                         ELSE IF e = "none" THEN resume(j)
                         ELSE resume([j EXCEPT
                                 !.imdbIdsByTitle[r.n] = Some(imdbId),
                                 !.newMappings[t.media_type] =
                                     [id \in DOMAIN @ \cup {t.id} |->
                                        IF id = t.id THEN imdbId ELSE @[id]],
                                 !.owed = owe(j, r, {mapKey(t)})])]
            [] r.kind = "mset:map" ->
                 \E w \in K :
                 \E res \in {setCachedImdbIds(mem, kv, r.n, j.newMappings[r.n], now, w)} :
                    /\ kv' = res.kv
                    /\ memoryCache' = [memoryCache EXCEPT ![p] = res.mem]
                    /\ job' = [job EXCEPT ![p] =
                         resume([j EXCEPT !.refused =
                            IF clientCall(w) = "ok" THEN @
                            ELSE @ \cup {cacheKey(mapPrefix(r.n), id) :
                                           id \in DOMAIN j.newMappings[r.n]}])]
            [] r.kind = "mget:rating" ->
                 \E g \in K :
                 \E res \in {getCachedImdbRatings(mem, kv,
                                {j.imdbIdsByTitle[n].some :
                                   n \in {m \in DOMAIN j.imdbIdsByTitle :
                                            j.imdbIdsByTitle[m] # Nil}}, now, g)} :
                    /\ kv' = res.kv
                    /\ memoryCache' = [memoryCache EXCEPT ![p] = res.mem]
                    /\ job' = [job EXCEPT ![p] =
                                 resume([j EXCEPT !.cachedRatingsMap = res.ret])]
            [] r.kind = "incr" ->
                 \E inc \in K :
                 \E u \in {incrementOmdbUsage(EmptyMemory, kv, Today, inc)} :
                    /\ kv' = u.kv
                    /\ UNCHANGED memoryCache
                    /\ job' = [job EXCEPT ![p] =
                         IF u.threw THEN resume(j)           \* caught: no request
                         ELSE [j EXCEPT !.inflight = @ \cup {[r EXCEPT !.kind = "omdb"]}]]
            [] r.kind = "omdb" ->
                 \E o \in ShortOmdbOutcomes :
                    LET imdbId == j.imdbIdsByTitle[r.n].some
                        rating == omdbRating(o)
                    IN
                    /\ UNCHANGED <<kv, memoryCache>>
                    /\ job' = [job EXCEPT ![p] =
                         IF rating = Nil THEN resume(j)
                         ELSE resume([j EXCEPT
                                 !.ratingsToWrite =
                                     [id \in DOMAIN @ \cup {imdbId} |->
                                        IF id = imdbId THEN rating.some ELSE @[id]],
                                 !.newRatings = @ + 1,
                                 !.owed = owe(j, r, {ratingKey(imdbId)})])]
            [] r.kind = "mset:rating" ->
                 \E w \in K :
                 \E res \in {setCachedImdbRatings(mem, kv, j.ratingsToWrite, now, w)} :
                    /\ kv' = res.kv
                    /\ memoryCache' = [memoryCache EXCEPT ![p] = res.mem]
                    /\ job' = [job EXCEPT ![p] =
                         resume([j EXCEPT !.refused =
                            IF clientCall(w) = "ok" THEN @
                            ELSE @ \cup {ratingKey(id) : id \in DOMAIN j.ratingsToWrite}])]

InitChunk ==
    /\ env = [NODE_ENV |-> "production", KV_URL |-> TRUE, KV_TOKEN |-> TRUE,
              TMDB_API_KEY |-> TRUE, OMDB_API_KEY |-> TRUE, CRON_SECRET |-> TRUE]
    /\ now = 0
    /\ kv = EmptyKv
    /\ memoryCache = [p \in Procs |-> EmptyMemory]
    /\ last = NoOp
    /\ job = [p \in Procs |-> IF p = 1 THEN FlightJob ELSE IdleJob]
    /\ resp = NoResp
    /\ runsOn = [d \in Dates |-> 0]

NextChunk == Issue(1) \/ Complete(1, KvOutcomes)

\* The loop of one run with every request of it a step of its own, against a
\* store and two APIs that may fail.
SpecChunk == InitChunk /\ [][NextChunk]_vars

Flying(p) == job[p].pc \in {"flight", "threw", "done"}

\* The requests p has in flight that are addressed to a server.
outstanding(p) == job[p].inflight

\* o was obtained by a chunk before the one the handler of p is at.
earlier(o, j) == o.pass < j.pass \/ (o.pass = j.pass /\ o.i < j.i)

\* C23: within a run the chunks are strictly sequential: every request in
\* flight belongs to the chunk (or page fetch) the handler is at, so none of a
\* later chunk is issued while one of an earlier chunk is out; every mapping
\* and rating an earlier chunk obtained is in the store, unless the store
\* refused its write; and the run never has more requests outstanding than the
\* chunk size.
ChunksSequential ==
    \A p \in Procs : Flying(p) =>
        /\ \A r \in outstanding(p) : r.pass = job[p].pass /\ r.i = job[p].i
        /\ \A o \in job[p].owed :
              earlier(o, job[p]) => kv[o.key] # Nil \/ o.key \in job[p].refused
        /\ Cardinality(outstanding(p)) <= REQUEST_CONCURRENCY

\* The second chunk of a page has a request out, the first chunk having stored
\* a rating, and a whole chunk of OMDb requests has been out at once.
SecondChunkInFlight ==
    /\ Flying(1) /\ job[1].i = REQUEST_CONCURRENCY
    /\ outstanding(1) # {}
    /\ \E o \in job[1].owed : earlier(o, job[1]) /\ o.key \in RatingKeys /\ kv[o.key] # Nil

\* ---- acquireCronLock ----

LockKeys == {cacheKey("imdb:cron:lock", d) : d \in Dates}
LOCK_EX_MS == 60 * 60 * 1000          \* ex: 60 * 60, in seconds

\* The remote store holds key at time t: it was set and has not expired.
holds(kvs, key, t) == kvs[key] # Nil /\ t < kvs[key].expiresAt

\* set(key, '1', {nx: true, ex: 60 * 60}): 'OK' when the key was not held.  (An
\* expired key is kept in kvs with its expiresAt; the store has dropped it.)
acquireCronLock(mem, kvs, dateKey, t, out) ==
    IF ~isKvEnabled
    THEN Done(mem, kvs, FALSE, 0)
    ELSE IF clientCall(out) # "ok"
         THEN Threw(mem, kvs, 1)
         ELSE LET key == cacheKey("imdb:cron:lock", dateKey) IN
              IF holds(kvs, key, t)
              THEN Done(mem, kvs, FALSE, 1)
              ELSE Done(mem, [kvs EXCEPT ![key] = [value |-> "1",
                                                   expiresAt |-> t + LOCK_EX_MS]],
                        TRUE, 1)

AcquireLock(p) ==
    \E dateKey \in {Today, Today + 1}, out \in KvOutcomes :
        Ran(p, "acquireCronLock", [dateKey |-> dateKey], out,
            acquireCronLock(memoryCache[p], kv, dateKey, now, out))

InitLock ==
    /\ env \in {e \in EnvAll : e.TMDB_API_KEY /\ e.OMDB_API_KEY /\ e.CRON_SECRET}
    /\ now = 0
    /\ kv = [k \in KvKeys \cup LockKeys |-> Nil]
    /\ memoryCache = [p \in Procs |-> EmptyMemory]
    /\ last = NoOp
    /\ job = [p \in Procs |-> IdleJob]
    /\ resp = NoResp
    /\ runsOn = [d \in Dates |-> 0]

NextLock ==
    \/ \E p \in Procs : AcquireLock(p)
    \/ Tick

\* Two processes calling acquireCronLock for today's and tomorrow's date while
\* eighty minutes of one date pass.
SpecLock == InitLock /\ [][NextLock]_vars

Acquiring == OpRan /\ last'.op = "acquireCronLock"
lockOf(l) == cacheKey("imdb:cron:lock", l.args.dateKey)

\* C24: acquireCronLock(dateKey) is an atomic acquire for the date: with the
\* cache enabled, a call the store answers returns true when no caller has
\* acquired dateKey before and false ever after, so exactly one caller of a
\* date receives true; with the cache disabled it returns false and sets
\* nothing.
LockAcquiredOncePerDate ==
    [][Acquiring =>
        /\ CacheDisabled => last'.ret = FALSE /\ kv' = kv /\ last'.calls = 0
        /\ (CacheOn /\ ~last'.threw) =>
              /\ last'.ret = (kv[lockOf(last')] = Nil)
              /\ kv'[lockOf(last')] # Nil
        /\ last'.threw => kv' = kv]_vars

\* ---- Invocations across a change of date ----

DayProcs == {1, 2, 3}
DayRuns == 3
EmptyCatalog == [movie |-> {<<>>}, tv |-> {<<>>}]

InitDays ==
    /\ env = [NODE_ENV |-> "production", KV_URL |-> TRUE, KV_TOKEN |-> TRUE,
              TMDB_API_KEY |-> TRUE, OMDB_API_KEY |-> TRUE, CRON_SECRET |-> TRUE]
    /\ now = 0
    /\ kv \in {EmptyKv, [EmptyKv EXCEPT ![CronStateKey] = EveOfWrap]}
    /\ memoryCache = [p \in DayProcs |-> EmptyMemory]
    /\ last = NoOp
    /\ job = [p \in DayProcs |-> IdleJob]
    /\ resp = NoResp
    /\ runsOn = [d \in Dates |-> 0]

NextDays ==
    \/ \E p \in DayProcs : StartUpTo(p, DayRuns)
    \/ \E p \in DayProcs : FetchPages(p, EmptyCatalog)
    \/ \E p \in DayProcs : Finish(p)
    \/ NextDay

\* Three instances of the endpoint over two dates, the catalog answering with
\* empty pages: up to three runs, overlapping or not.
SpecDays == InitDays /\ [][NextDays]_vars

\* This step is the final write of the run of p, answered "ok".
Persists(p) == job[p].pc = "finish" /\ job'[p].pc = "idle" /\ resp'.status = 200

\* C25: all runs that persist the same lastRunDate persist the same dayIndex,
\* however the invocations interleave and whatever date each starts on: a run
\* that persists a lastRunDate the store already holds persists the dayIndex
\* the store holds with it.
IndexAdvancedOncePerDate ==
    [][\A p \in DOMAIN job :
          (Persists(p) /\ CycleState # Nil /\ CycleState.lastRunDate = job[p].today)
              => job[p].nextDayIndex = CycleState.dayIndex]_vars

\* ---- Invocations in the middle of a cycle ----

\* A state persisted by a run of the eve of date 0, on the fourth day of a cycle.
MidCycle == [dayIndex |-> 3, lastRunDate |-> -1, moviePage |-> 1, tvPage |-> 2]

InitCycle ==
    /\ env = [NODE_ENV |-> "production", KV_URL |-> TRUE, KV_TOKEN |-> TRUE,
              TMDB_API_KEY |-> TRUE, OMDB_API_KEY |-> TRUE, CRON_SECRET |-> TRUE]
    /\ now = 0
    /\ kv = [EmptyKv EXCEPT ![CronStateKey] = MidCycle]
    /\ memoryCache = [p \in Procs |-> EmptyMemory]
    /\ last = NoOp
    /\ job = [p \in Procs |-> IdleJob]
    /\ resp = NoResp
    /\ runsOn = [d \in Dates |-> 0]

\* The cron endpoint of a complete deployment whose store holds MidCycle.
SpecCycle == InitCycle /\ [][Next]_vars

\* C26: within one cycle the persisted moviePage and tvPage never decrease
\* from one CycleState write to the next, for any sequence of runs, overlapping
\* ones included, and each stays in 1..MAX_TMDB_PAGES + 1.
CursorsNeverDecrease ==
    [][\A p \in Procs :
          (Persists(p) /\ CycleState # Nil /\ job[p].nextDayIndex # 0) =>
              /\ CycleState'.moviePage >= CycleState.moviePage
              /\ CycleState'.tvPage >= CycleState.tvPage
              /\ CycleState'.moviePage \in 1..(MAX_TMDB_PAGES + 1)
              /\ CycleState'.tvPage \in 1..(MAX_TMDB_PAGES + 1)]_vars

\* The number of items of a non-empty page of Catalog.
pageSize(mediaType) == Len(CHOOSE r \in Catalog[mediaType] : r # <<>>)

\* The items of the pages the run of p has fetched with a non-empty result,
\* which are the pages below its cursors.
itemsScanned(p) ==
    pageSize("movie") * job[p].moviePagesScanned + pageSize("tv") * job[p].tvPagesScanned

\* C27: no item of a scanned page is skipped: when a run persists its cursors,
\* every item of every page it fetched with a non-empty result has been
\* processed by it, also when it stops at the target in the middle of a page.
NoItemSkipped ==
    [][\A p \in Procs : Persists(p) => job[p].processed = itemsScanned(p)]_vars

conserved(c) ==
    /\ c.processed = c.cachedRatings + c.fetchedRatings + c.missingRatings + c.missingImdbId
    /\ c.newRatings = c.fetchedRatings

\* The step p takes is the second half of a chunk.
RatingsStep(p) == job[p].pc = "ratings" /\ job'[p] # job[p]

fetcherCalls(p) ==
    (job'[p].fetchedRatings + job'[p].missingRatings)
        - (job[p].fetchedRatings + job[p].missingRatings)

\* C28: the counters are conserved: at every point of a run between chunks and
\* in every "ok" response, processed is the sum of cachedRatings,
\* fetchedRatings, missingRatings and missingImdbId, and newRatings equals
\* fetchedRatings; a chunk adds each of its items to exactly one of the four,
\* and OMDb is asked only for the items counted as fetched or as missing
\* rating, never for one without mapping or one found in the cache.
CountersConserved ==
    /\ [](\A p \in Procs : Running(p) => conserved(job[p]))
    /\ []((resp.status = 200 /\ resp.body.status = "ok") => conserved(resp.body))
    /\ [][\A p \in Procs : RatingsStep(p) =>
             /\ job'[p].processed - job[p].processed = Len(job[p].imdbIdsByTitle)
             /\ job'[p].missingImdbId - job[p].missingImdbId =
                   Cardinality({n \in DOMAIN job[p].imdbIdsByTitle :
                                  job[p].imdbIdsByTitle[n] = Nil})
             /\ last'.omdb = fetcherCalls(p)]_vars

\* A run answered "ok" that counted an item in each of the four counters.
EveryCounterUsed ==
    /\ resp.status = 200 /\ resp.body.status = "ok"
    /\ resp.body.cachedRatings > 0 /\ resp.body.fetchedRatings > 0
    /\ resp.body.missingRatings > 0 /\ resp.body.missingImdbId > 0

\* The step p takes is the first half of a chunk.
IdsStep(p) == job[p].pc = "chunk" /\ job'[p] # job[p]

\* The titles of the chunk of p no tier of the cache has a mapping for.
unmapped(p) ==
    {n \in DOMAIN chunkOf(job[p]) :
        /\ kv[mapKey(chunkOf(job[p])[n])] = Nil
        /\ memoryCache[p][mapKey(chunkOf(job[p])[n])] = Nil}

\* C29: the mapping cache never records a known-absent result: every mapping
\* held by either tier has a non-empty id; a title for which the lookup gave
\* no id leaves both tiers without a record of it, a failed lookup leaves the
\* store as it was; and every title of a chunk that neither tier has a mapping
\* for costs an external_ids request, each time it is processed.
AbsentMappingNotCached ==
    /\ [](\A k \in MapKeys :
            /\ kv[k] # Nil => kv[k].imdbId # ""
            /\ \A p \in Procs : memoryCache[p][k] # Nil => memoryCache[p][k].value.imdbId # "")
    /\ [][\A p \in Procs : IdsStep(p) =>
             /\ last'.tmdb = Cardinality(unmapped(p))
             /\ IF job'[p].pc = "idle"
                THEN kv' = kv
                ELSE \A n \in DOMAIN chunkOf(job[p]) :
                        job'[p].imdbIdsByTitle[n] = Nil =>
                           /\ kv'[mapKey(chunkOf(job[p])[n])] = Nil
                           /\ memoryCache'[p][mapKey(chunkOf(job[p])[n])] = Nil]_vars

\* The second pass of a run has asked again for a title still without mapping.
AbsentAskedAgain ==
    /\ job[1].pc = "ratings" /\ job[1].moviePagesScanned = 2
    /\ last.op = "GET" /\ last.step = "ids" /\ last.tmdb > 0
    /\ \E n \in DOMAIN job[1].imdbIdsByTitle : job[1].imdbIdsByTitle[n] = Nil

\* C30: a run of the job can only occur in a fully configured production
\* deployment: outside one, no process is ever inside a run, no response has
\* status 200 ("ok" or "skipped"), and no step changes the store or a process
\* cache; and in a non-production deployment every request, all of them being
\* authorized there, is answered 500 and changes nothing.
RunNeedsProduction ==
    /\ [](~FullyConfigured =>
            /\ \A p \in Procs : ~Running(p)
            /\ resp.status # 200
            /\ kv \in {EmptyKv, [EmptyKv EXCEPT ![CronStateKey] = EveOfWrap]}
            /\ \A p \in Procs : memoryCache[p] = EmptyMemory)
    /\ [][\A p \in Procs :
             (StartStep(p) /\ env.NODE_ENV # "production") =>
                /\ isAuthorizedCron(last'.request)
                /\ resp'.p = p /\ resp'.status = 500
                /\ UNCHANGED <<kv, memoryCache, job, runsOn>>]_vars

\* A request without secret and without the scheduler's header has been answered
\* 500 in a development deployment that has the keys, the credentials and a
\* secret, the store still holding what it held.
DevelopmentAnswers500 ==
    /\ last.op = "GET" /\ last.step = "start"
    /\ last.request = [authorization |-> "none", vercelCron |-> FALSE]
    /\ env.NODE_ENV = "development" /\ env.CRON_SECRET
    /\ env.KV_URL /\ env.KV_TOKEN /\ env.TMDB_API_KEY /\ env.OMDB_API_KEY
    /\ resp.status = 500
    /\ CycleState = EveOfWrap

====
